---------------------------- MODULE Spec2Model ----------------------------
(***************************************************************************)
(* Model of the chat application's data-analysis core:                     *)
(*   - the image-generation endpoint of server/index.js with its retry     *)
(*     wrapper replicateRunWithRetry (specification SpecServer),           *)
(*   - the routing decision of handleSend in components/Chat.js            *)
(*     (specification SpecChat),                                           *)
(*   - the tool executor and the dataset summary of services/csvTools.js   *)
(*     (specification SpecTools),                                          *)
(*   - the upload handlers of components/Chat.js, interleaved              *)
(*     (specification SpecUploads),                                        *)
(*   - handleSend and handleStop of components/Chat.js, await by await     *)
(*     (specification SpecTurn),                                           *)
(*   - the CSV parser of services/csvTools.js (specification SpecCsv).     *)
(* The parts share no state; each specification moves its own variables    *)
(* and leaves the others at their initial value.                           *)
(***************************************************************************)
EXTENDS Integers, Sequences, FiniteSets, TLC

VARIABLES
    \* ---- server/index.js : POST /api/generate-image ----
    sPc,        \* position of the request handler
    req,        \* the request being served: prompt, anchor, API token
    invs,       \* the replicateRunWithRetry invocations of this request, in order
    resp,       \* the HTTP response sent
    \* ---- components/Chat.js : the Chat component ----
    images,         \* number of attached images
    csvContext,     \* pending CSV attachment chip
    jsonContext,    \* pending JSON attachment chip
    sessionCsvRows, \* parsed rows of the session's dataset
    messages,       \* the transcript
    streaming,      \* a turn is in flight
    route,          \* the routing decision of the turn in flight
    \* ---- services/csvTools.js : executeTool ----
    toolRows,   \* the row set handed to the executor
    toolSource, \* the kind of file they were loaded from, and the rows as parsed
    toolSummary, \* the summary computed from them when they were loaded
    toolCall,   \* the tool call being answered
    toolResult, \* what executeTool returned for it
    \* ---- components/Chat.js : handleDrop / handleFileSelect ----
    uploads,     \* the drops and picks started so far, each with its files
    reads,       \* per upload still running: the file whose text is awaited
    sessionData, \* the dataset state of the session, each part with its origin
    sentTurn,    \* what the last turn sent took from the session
    \* ---- components/Chat.js : handleSend and handleStop, step by step ----
    turnPc,      \* where handleSend stands: which await it is at
    turn,        \* the turn in flight: its strategy and what it has accumulated
    abortRef,    \* abortRef.current
    assistant,   \* the assistant message of the turn as it is in messages
    stopPressed, \* Stop was pressed during this turn, and the message then
    saved,       \* what was persisted for the assistant message
    \* ---- services/csvTools.js : parseCsvToRows ----
    csvSource,   \* the records the CSV text was written from
    csvText,     \* the CSV text, character by character
    csvParsed,   \* what parseCsvToRows returned for it
    csvPc,       \* whether the text has been parsed
    \* ---- services/gemini : loadSystemPrompt ----
    promptFile, \* the contents of public/prompt_chat.txt
    cachedPrompt, \* the prompt kept by loadSystemPrompt (null before the first load)
    systemInstruction, \* what the last call of streamChat got as its system instruction
    promptFetch, \* how that call got it
    promptPc, \* where the call is
    \* ---- components/Chat.js : the prompt of a turn ----
    csvDataSummary,  \* the summary of the dataset: null, '' or a text
    sessionSlimCsv,  \* its key columns as CSV: null, '' or a text
    promptForGemini, \* what the prompt of the turn in flight is made of
    pressed,\* the last press of Send: was the button enabled, did a turn start
    \* ---- components/Chat.js : handleSend and the session of a chat ----
    activeSessionId, \* the active session: 0 for 'new', else the number of the session
    sessions, \* how many sessions createSession has made
    input, \* whether a text is in the input
    typed, \* how many texts have been typed
    sendPc, \* where each invocation of handleSend is
    userMessages, \* how many user messages have been added
    sendStreaming \* streaming, as these invocations set it

serverVars == <<sPc, req, invs, resp>>

chatVars == <<images, csvContext, jsonContext, sessionCsvRows, messages,
              streaming, route, csvDataSummary, sessionSlimCsv, promptForGemini,
              pressed>>

toolVars == <<toolRows, toolSource, toolSummary, toolCall, toolResult>>

uploadVars == <<uploads, reads, sessionData, sentTurn>>

turnVars == <<turnPc, turn, abortRef, assistant, stopPressed, saved>>

csvVars == <<csvSource, csvText, csvParsed, csvPc>>

promptVars == <<promptFile, cachedPrompt, systemInstruction, promptFetch, promptPc>>

sendsVars == <<activeSessionId, sessions, input, typed, sendPc, userMessages, sendStreaming>>

\* What the actions of one part leave alone: the variables of the others.
exceptServer == <<chatVars, toolVars, uploadVars, turnVars, csvVars, promptVars, sendsVars>>
exceptChat == <<serverVars, toolVars, uploadVars, turnVars, csvVars, promptVars, sendsVars>>
exceptTools == <<serverVars, chatVars, uploadVars, turnVars, csvVars, promptVars, sendsVars>>
exceptUploads == <<serverVars, chatVars, toolVars, turnVars, csvVars, promptVars, sendsVars>>
exceptTurn == <<serverVars, chatVars, toolVars, uploadVars, csvVars, promptVars, sendsVars>>
exceptCsv == <<serverVars, chatVars, toolVars, uploadVars, turnVars, promptVars, sendsVars>>
exceptPrompt == <<serverVars, chatVars, toolVars, uploadVars, turnVars, csvVars, sendsVars>>
exceptSends == <<serverVars, chatVars, toolVars, uploadVars, turnVars, csvVars, promptVars>>

vars == <<sPc, req, invs, resp, images, csvContext, jsonContext,
          sessionCsvRows, messages, streaming, route,
          toolRows, toolSource, toolSummary, toolCall, toolResult,
          uploads, reads, sessionData, sentTurn,
          turnPc, turn, abortRef, assistant, stopPressed, saved,
          csvSource, csvText, csvParsed, csvPc,
          promptFile, cachedPrompt, systemInstruction, promptFetch, promptPc,
          csvDataSummary, sessionSlimCsv, promptForGemini, pressed,
          activeSessionId, sessions, input, typed, sendPc, userMessages, sendStreaming>>

Last(s) == s[Len(s)]

(***************************************************************************)
(*                 server/index.js : replicateRunWithRetry                 *)
(***************************************************************************)

\* Default value of the maxRetries parameter; no caller passes another one.
maxRetries == 3

\* parseInt(...) that yields NaN
NaN == -1

SDXL_ID == "stability-ai/sdxl"
INSTANTID_ID == "zsxkib/instant-id-ipadapter-plus-face"

\* The retry-after header values the service may send ("none": no header).
RetryAfterValues == {"none", "2", "90", "soon"}

\* The N of a "resets in N seconds" / "~Ns" hint in the message (0: no hint).
HintValues == {0, 10, 70}

\* An error thrown by replicate.run: what its message matches, and the
\* retry-after header of its response.
\*   rate: the message matches /429|too many requests|rate limit|throttl/i
\*   pay : the message matches /402|insufficient credit|payment required/i
RateLimitErrors ==
    [rate : {TRUE}, pay : {FALSE}, retryAfter : RetryAfterValues, hint : HintValues]

PaymentError == [rate |-> FALSE, pay |-> TRUE, retryAfter |-> "none", hint |-> 0]

OtherError == [rate |-> FALSE, pay |-> FALSE, retryAfter |-> "none", hint |-> 0]

Errors == RateLimitErrors \cup {PaymentError, OtherError}

NoError == [rate |-> FALSE, pay |-> FALSE, retryAfter |-> "-", hint |-> 0]

\* What replicate.run resolves to: a fetchable image URL, an empty output,
\* an object no URL can be extracted from.
Outputs == {"image", "empty", "badformat"}

\* /429|too many requests|rate limit|throttl/i.test(msg)
Is429(err) == err.rate

\* /402|insufficient credit|payment required/i.test(msg)
Is402(err) == err.pay

\* parseInt(retryAfterHeader, 10)
ParseInt(h) ==
    CASE h = "2"  -> 2
      [] h = "90" -> 90
      [] OTHER    -> NaN

Min(a, b) == IF a <= b THEN a ELSE b

\* WaitMs with the Math.min(..., 60000) ceilings left out.
WaitMsUnclamped(err) ==
    IF err.retryAfter # "none"
    THEN LET sec == ParseInt(err.retryAfter)
         IN  IF sec # NaN THEN sec * 1000 ELSE 15000
    ELSE IF err.hint # 0
         THEN err.hint * 1000 + 2000
         ELSE 15000

\* The wait computed in the catch block of replicateRunWithRetry.
WaitMs(err) ==
    IF err.retryAfter # "none"
    THEN LET sec == ParseInt(err.retryAfter)
         IN  IF sec # NaN THEN Min(sec * 1000, 60000) ELSE 15000
    ELSE IF err.hint # 0
         THEN Min(err.hint * 1000 + 2000, 60000)
         ELSE 15000

\* for (...; attempt <= maxRetries; ...)
LoopGuard(attempt) == attempt <= maxRetries

\* if (is429 && attempt < maxRetries)
ShouldRetry(err, attempt) == Is429(err) /\ attempt < maxRetries

\* NextAttempt with the loop counter never advanced.
NextAttemptStuck(attempt) == attempt

\* attempt++
NextAttempt(attempt) == attempt + 1

\* Rethrow as throw new Error(err.message): the response headers are lost.
RethrowWrapped(err) == [err EXCEPT !.retryAfter = "none"]

\* The error a failed invocation delivers to its caller: throw err
Rethrow(err) == err

\* A fresh invocation of replicateRunWithRetry, at its first replicate.run.
NewInvocation(modelId, prompt) ==
    [model   |-> modelId,
     prompt  |-> prompt,
     attempt |-> 0,
     calls   |-> 1,         \* replicate.run calls issued so far
     trace   |-> <<>>,      \* what happened, in order
     state   |-> "Attempt", \* Attempt | Sleeping | Success | Failure
     lastErr |-> NoError,   \* the error of the latest failed call
     thrown  |-> NoError,   \* the error delivered to the caller
     waitMs  |-> 0,         \* the latest sleep
     output  |-> "none"]

\* replicate.run resolved with out.
RunSucceeded(inv, out) ==
    [inv EXCEPT !.trace = Append(@, "ok"),
                !.state = "Success",
                !.output = out]

ErrKind(err) == IF Is429(err) THEN "e429" ELSE IF Is402(err) THEN "e402" ELSE "eother"

\* replicate.run rejected with err: the catch block.
RunFailed(inv, err) ==
    IF ShouldRetry(err, inv.attempt)
    THEN [inv EXCEPT !.trace = Append(@, ErrKind(err)),
                     !.state = "Sleeping",
                     !.lastErr = err,
                     !.waitMs = WaitMs(err)]
    ELSE [inv EXCEPT !.trace = Append(@, ErrKind(err)),
                     !.state = "Failure",
                     !.lastErr = err,
                     !.thrown = Rethrow(err)]

\* The setTimeout promise resolved: the next iteration of the loop.
Woke(inv) ==
    LET a == NextAttempt(inv.attempt)
    IN  IF LoopGuard(a)
        THEN [inv EXCEPT !.attempt = a, !.calls = @ + 1,
                         !.trace = Append(@, "sleep"), !.state = "Attempt"]
        ELSE [inv EXCEPT !.attempt = a, !.trace = Append(@, "sleep"),
                         !.state = "Success", !.output = "empty"]

(***************************************************************************)
(*                server/index.js : POST /api/generate-image               *)
(***************************************************************************)

Prompts == {"", "p1", "p2"}

\* How the anchor image arrives: not at all, as an uploaded file, or as a
\* base64 string that is shorter than 100 characters, usable, or longer
\* than 500000 characters.
AnchorKinds == {"none", "file", "b64_short", "b64_ok", "b64_huge"}

Requests == [prompt : Prompts, anchor : AnchorKinds, apiKey : BOOLEAN]

NoRequest == [prompt |-> "", anchor |-> "none", apiKey |-> FALSE]

NoResponse == [status |-> 0, error |-> "none"]

\* anchorBuf is set
HasAnchorBuf(r) == r.anchor \in {"file", "b64_ok"}

\* Friendly without the 402 branch.
FriendlyNoBilling(err) ==
    IF Is429(err) THEN "rate_limited" ELSE "raw"

\* The message of the outer catch block.
Friendly(err) ==
    IF Is429(err) THEN "rate_limited"
    ELSE IF Is402(err) THEN "billing"
    ELSE "raw"

\* The request arrives: validation, then the first await.
ReceiveRequest ==
    /\ sPc = "idle"
    /\ \E r \in Requests :
        /\ req' = r
        /\ IF r.prompt = ""
           THEN /\ resp' = [status |-> 400, error |-> "prompt is required"]
                /\ sPc' = "done"
                /\ invs' = <<>>
           ELSE IF ~r.apiKey
           THEN /\ resp' = [status |-> 503, error |-> "not configured"]
                /\ sPc' = "done"
                /\ invs' = <<>>
           ELSE IF HasAnchorBuf(r)
           THEN /\ sPc' = "resize"
                /\ invs' = <<>>
                /\ resp' = NoResponse
           ELSE /\ sPc' = "run"
                /\ invs' = <<NewInvocation(SDXL_ID, r.prompt)>>
                /\ resp' = NoResponse
    /\ UNCHANGED exceptServer

\* sharp(...).toBuffer() resolved: InstantID is invoked.
ResizeDone ==
    /\ sPc = "resize"
    /\ sPc' = "run"
    /\ invs' = <<NewInvocation(INSTANTID_ID, req.prompt)>>
    /\ UNCHANGED <<req, resp>>
    /\ UNCHANGED exceptServer

\* sharp(...).toBuffer() rejected: caught by the inner catch, SDXL is invoked.
ResizeFailed ==
    /\ sPc = "resize"
    /\ sPc' = "run"
    /\ invs' = <<NewInvocation(SDXL_ID, req.prompt)>>
    /\ UNCHANGED <<req, resp>>
    /\ UNCHANGED exceptServer

\* CaughtByFallback with rate-limit errors rethrown instead of caught.
CaughtUnlessRateLimited(inv) == inv.model = INSTANTID_ID /\ ~Is429(inv.thrown)

\* try { ... replicateRunWithRetry(replicate, INSTANTID_ID, ...) } catch (instantErr):
\* whether an error thrown by this invocation is caught by the inner catch.
CaughtByFallback(inv) == inv.model = INSTANTID_ID

\* What the handler does once the awaited step of an invocation has settled.
AfterInvocation(done) ==
    LET inv == Last(done)
    IN  IF inv.state = "Success"
        THEN \* const imageOutput = ...; getUrl(imageOutput)
             IF inv.output = "empty"
             THEN /\ resp' = [status |-> 500, error |-> "No image returned from Replicate"]
                  /\ sPc' = "done"
                  /\ invs' = done
             ELSE IF inv.output = "badformat"
             THEN /\ resp' = [status |-> 500, error |-> "Invalid response format from Replicate"]
                  /\ sPc' = "done"
                  /\ invs' = done
             ELSE /\ resp' = NoResponse
                  /\ sPc' = "fetch"
                  /\ invs' = done
        ELSE IF inv.state = "Failure"
        THEN IF CaughtByFallback(inv)
             THEN \* catch (instantErr): fall back to SDXL text-only
                  /\ invs' = Append(done, NewInvocation(SDXL_ID, req.prompt))
                  /\ sPc' = "run"
                  /\ resp' = NoResponse
             ELSE \* the outer catch
                  /\ resp' = [status |-> 500, error |-> Friendly(inv.thrown)]
                  /\ sPc' = "done"
                  /\ invs' = done
        ELSE /\ sPc' = IF inv.state = "Sleeping" THEN "sleep" ELSE "run"
             /\ invs' = done
             /\ resp' = NoResponse

WithLast(s, inv) == [s EXCEPT ![Len(s)] = inv]

\* replicate.run resolves.
RunResolves ==
    /\ sPc = "run"
    /\ \E out \in Outputs :
        AfterInvocation(WithLast(invs, RunSucceeded(Last(invs), out)))
    /\ UNCHANGED req
    /\ UNCHANGED exceptServer

\* replicate.run rejects.
RunRejects ==
    /\ sPc = "run"
    /\ \E err \in Errors :
        AfterInvocation(WithLast(invs, RunFailed(Last(invs), err)))
    /\ UNCHANGED req
    /\ UNCHANGED exceptServer

\* The sleep before a retry is over.
SleepEnds ==
    /\ sPc = "sleep"
    /\ AfterInvocation(WithLast(invs, Woke(Last(invs))))
    /\ UNCHANGED req
    /\ UNCHANGED exceptServer

\* fetch(href) of the generated image resolves.
FetchImage ==
    /\ sPc = "fetch"
    /\ \E ok \in BOOLEAN :
        resp' = IF ok THEN [status |-> 200, error |-> "none"]
                ELSE [status |-> 500, error |-> "Failed to fetch generated image"]
    /\ sPc' = "done"
    /\ UNCHANGED <<req, invs>>
    /\ UNCHANGED exceptServer

\* The response is out; the server takes the next request.
NextRequest ==
    /\ sPc = "done"
    /\ sPc' = "idle"
    /\ req' = NoRequest
    /\ invs' = <<>>
    /\ resp' = NoResponse
    /\ UNCHANGED exceptServer

InitServer ==
    /\ sPc = "idle"
    /\ req = NoRequest
    /\ invs = <<>>
    /\ resp = NoResponse

NextServer ==
    \/ ReceiveRequest
    \/ ResizeDone
    \/ ResizeFailed
    \/ RunResolves
    \/ RunRejects
    \/ SleepEnds
    \/ FetchImage
    \/ NextRequest




(***************************************************************************)
(*               components/Chat.js : the routing of handleSend            *)
(*                                                                         *)
(* A text is a sequence of lower-case words, standing for the words joined *)
(* by single blanks. The regular expressions of handleSend are matched on  *)
(* the words: an alternative anchored by \b on both sides is a whole word; *)
(* "a\s+b" is a pair of neighbouring words; "a\s+.*\s+b" needs at least    *)
(* one word in between; "a.*b" only needs b after a. The vocabulary below  *)
(* has no word that contains one of the patterns other than as a whole     *)
(* word, except "into", which starts with "in".                            *)
(***************************************************************************)

\* Bounds of the chat model: images attached at a time, turns of one chat.
MaxImages == 1
MaxTurns == 1

\* Non-blank lines of the CSV files and items of the JSON files uploaded:
\* blank text, a header alone, a header with one row; no item, one item.
CsvLineCounts == {0, 1, 2}
JsonItemCounts == {0, 1}

HasWord(t, S) == \E i \in DOMAIN t : t[i] \in S

HasPair(t, A, B) == \E i \in 1..(Len(t) - 1) : t[i] \in A /\ t[i + 1] \in B

HasTriple(t, A, B, C) ==
    \E i \in 1..(Len(t) - 2) : t[i] \in A /\ t[i + 1] \in B /\ t[i + 2] \in C

\* a\s+.*\s+b
HasGap(t, A, B) ==
    \E i \in DOMAIN t : \E j \in DOMAIN t : j >= i + 2 /\ t[i] \in A /\ t[j] \in B

\* a.*b
HasLater(t, A, B) ==
    \E i \in DOMAIN t : \E j \in DOMAIN t : j > i /\ t[i] \in A /\ t[j] \in B

RECURSIVE CharsOf(_)
\* Number of characters of the words of t.
CharsOf(t) == IF t = <<>> THEN 0 ELSE Len(Head(t)) + CharsOf(Tail(t))

\* text.length
TextLength(t) == IF t = <<>> THEN 0 ELSE CharsOf(t) + (Len(t) - 1)

\* PYTHON_ONLY_KEYWORDS.test(text)
WantPythonOnly(t) ==
    \/ HasWord(t, {"regression", "scatter", "histogram", "seaborn", "matplotlib",
                   "numpy", "timeseries", "heatmap", "boxplot", "violin", "distribut",
                   "linearmodel", "logistic", "forecast", "trendline"})
    \/ HasPair(t, {"time"}, {"series"})
    \/ HasPair(t, {"box"}, {"plot"})
    \/ HasPair(t, {"linear"}, {"model"})
    \/ HasPair(t, {"trend"}, {"line"})

\* CODE_KEYWORDS.test(text): the expression is defined in services/gemini,
\* which is not at hand; it matches programming vocabulary.
CodeKeywords(t) == HasWord(t, {"code", "python", "script"})

\* wantImageGen
WantImageGen(t) ==
    \/ HasLater(t, {"generate", "create", "draw", "make", "style", "chic", "stylish"},
                   {"image", "pic", "photo", "picture"})
    \/ HasPair(t, {"image"}, {"generate", "generation", "generator"})
    \/ HasTriple(t, {"put"}, {"me", "this", "him", "her"}, {"in", "into"})
    \/ HasPair(t, {"transform", "style", "make"}, {"this", "me", "it", "him", "her"})
    \/ HasGap(t, {"get"}, {"image"})
    \/ HasTriple(t, {"try", "do"}, {"it"}, {"again"})
    \/ HasGap(t, {"that", "the"}, {"image"})
    \/ HasPair(t, {"try"}, {"again"})
    \/ HasPair(t, {"lets", "let's"}, {"try"})

\* mentionsImage
MentionsImage(t) ==
    HasWord(t, {"image", "photo", "picture", "generate", "transform", "style",
                "chic", "stylish"})

\* wantPlot
WantPlot(t) ==
    \/ \E i \in DOMAIN t : \E j \in DOMAIN t :
            /\ j >= i + 2 /\ j < Len(t)
            /\ t[i] = "plot" /\ t[j] \in {"vs", "over"} /\ t[j + 1] = "time"
    \/ HasPair(t, {"plot"}, {"views", "likes", "metric", "engagement"})
    \/ \E i \in DOMAIN t : \E j \in DOMAIN t :
            /\ i < Len(t) /\ j >= i + 3
            /\ t[i] = "channel" /\ t[i + 1] \in {"video", "videos"} /\ t[j] = "plot"

\* /image|generateImage|NameError|glitch|image generation tool|conjure|spell/i
LastWasImageError(lastModelText) ==
    HasWord(lastModelText, {"image", "generateImage", "NameError", "glitch",
                            "conjure", "spell"})

\* isRetryShort
IsRetryShort(t) ==
    /\ TextLength(t) < 80
    /\ \/ HasWord(t, {"try", "yes", "retry", "ok", "sure", "again", "please",
                      "lets", "let's"})
       \/ HasPair(t, {"do"}, {"it"})

\* /\b(get|make|create|generate|draw|try|do|conjure)\b/i.test(text)
HasActionVerb(t) ==
    HasWord(t, {"get", "make", "create", "generate", "draw", "try", "do", "conjure"})

\* [...messages].reverse().find((m) => m?.role === 'model'), then its text
LastModelText(msgs) ==
    LET idx == {i \in DOMAIN msgs : msgs[i].role = "model"}
    IN  IF idx = {} THEN <<>>
        ELSE msgs[CHOOSE i \in idx : \A j \in idx : j <= i].content

\* forceToolsForImage without the attached-images disjunct.
ForceToolsIgnoringAttached(f) ==
    \/ f.wantImageGen
    \/ f.retryImageContext
    \/ (f.mentionsImage /\ f.actionVerb)

\* forceToolsForImage
ForceToolsForImage(f) ==
    \/ f.wantImageGen
    \/ f.hasImages
    \/ f.retryImageContext
    \/ (f.mentionsImage /\ f.actionVerb)

\* useTools decided by the dataset alone: the Python-only test left out.
UseToolsIgnoringPython(f) ==
    \/ ForceToolsForImage(f)
    \/ /\ (~f.wantCode \/ f.mentionsImage \/ f.wantPlot)
       /\ (~f.capturedCsv \/ f.wantImageGen \/ f.hasImages)
       /\ (f.hasData \/ f.wantPlot)

\* useTools with hasCsvInSession in the place of (hasData || wantPlot).
UseToolsCsvInSession(f) ==
    \/ ForceToolsForImage(f)
    \/ /\ ~f.wantPythonOnly
       /\ (~f.wantCode \/ f.mentionsImage \/ f.wantPlot)
       /\ (~f.capturedCsv \/ f.wantImageGen \/ f.hasImages)
       /\ f.hasCsvInSession

\* useTools
UseTools(f) ==
    \/ ForceToolsForImage(f)
    \/ /\ ~f.wantPythonOnly
       /\ (~f.wantCode \/ f.mentionsImage \/ f.wantPlot)
       /\ (~f.capturedCsv \/ f.wantImageGen \/ f.hasImages)
       /\ (f.hasData \/ f.wantPlot)

\* useCodeExecution without the !forceToolsForImage guard.
UseCodeExecutionUnguarded(f) ==
    \/ f.wantPythonOnly
    \/ (f.wantCode /\ f.hasData /\ ~f.mentionsImage /\ ~f.wantPlot)

\* useCodeExecution
UseCodeExecution(f) ==
    /\ ~ForceToolsForImage(f)
    /\ \/ f.wantPythonOnly
       \/ (f.wantCode /\ f.hasData /\ ~f.mentionsImage /\ ~f.wantPlot)

\* The values handleSend computes from the text and the component state
\* before it chooses the mode.
Flags(t, rows, csv, json, nImages, msgs) ==
    [text              |-> t,
     wantPythonOnly    |-> WantPythonOnly(t),
     codeKeyword       |-> CodeKeywords(t),
     wantCode          |-> CodeKeywords(t) /\ ~rows.loaded,
     capturedCsv       |-> csv.set,
     jsonPending       |-> json.set,
     hasCsvInSession   |-> rows.loaded \/ csv.set,
     needsBase64       |-> csv.set /\ WantPythonOnly(t),
     wantImageGen      |-> WantImageGen(t),
     mentionsImage     |-> MentionsImage(t),
     wantPlot          |-> WantPlot(t),
     hasData           |-> rows.loaded,
     safeRows          |-> rows.n,
     hasImages         |-> nImages > 0,
     lastWasImageError |-> LastWasImageError(LastModelText(msgs)),
     isRetryShort      |-> IsRetryShort(t),
     actionVerb        |-> HasActionVerb(t),
     retryImageContext |-> IsRetryShort(t) /\ LastWasImageError(LastModelText(msgs))]

\* The routing decision of a turn.
Route(f) ==
    [decided          |-> TRUE,
     flags            |-> f,
     forceTools       |-> ForceToolsForImage(f),
     useTools         |-> UseTools(f),
     useCodeExecution |-> UseCodeExecution(f)]

NoFlags == Flags(<<>>, [loaded |-> FALSE, n |-> 0], [set |-> FALSE, rowCount |-> 0],
                 [set |-> FALSE, videoCount |-> 0], 0, <<>>)

NoRoute ==
    [decided |-> FALSE, flags |-> NoFlags, forceTools |-> FALSE,
     useTools |-> FALSE, useCodeExecution |-> FALSE]

(***************************************************************************)
(*                 components/Chat.js : the Chat component                 *)
(***************************************************************************)

NullRows == [loaded |-> FALSE, n |-> 0]
NullCsv == [set |-> FALSE, rowCount |-> 0]
NullJson == [set |-> FALSE, videoCount |-> 0]

\* What the user may type: any selection of these phrases, in this order,
\* and a few whole sentences.
Fragments ==
    << <<"yes">>, <<"regression">>, <<"plot", "views">>, <<"photo">>, <<"do">>,
       <<"put", "me", "in">>, <<"code">> >>

RECURSIVE Phrase(_, _)
Phrase(S, k) ==
    IF k > Len(Fragments) THEN <<>>
    ELSE (IF k \in S THEN Fragments[k] ELSE <<>>) \o Phrase(S, k + 1)

PlotOverTime == <<"plot", "views", "over", "time">>
LinearRegression == <<"run", "a", "linear", "regression", "on", "price", "vs", "sqft">>
RenaissancePainting == <<"make", "this", "into", "a", "renaissance", "painting">>
TryAgain == <<"try", "again">>
LongYes == <<"yes">> \o [i \in 1..7 |-> "renaissance"]

Sentences == {PlotOverTime, LinearRegression, RenaissancePainting, TryAgain, LongYes}

Utterances == {Phrase(S, 1) : S \in SUBSET DOMAIN Fragments} \cup Sentences

\* What the assistant may answer.
Replies == {<<"done">>, <<"the", "image", "tool", "failed">>}

\* What a stored session may hold when it is selected.
StoredMessages ==
    {<<>>, << [role |-> "user", content |-> <<"text">>],
              [role |-> "model", content |-> <<"done">>] >>}

\* An image is dropped, pasted or picked.
AttachImage ==
    /\ images < MaxImages
    /\ images' = images + 1
    /\ UNCHANGED <<csvContext, jsonContext, sessionCsvRows, messages,
                   streaming, route>>
    /\ UNCHANGED <<csvDataSummary, sessionSlimCsv, promptForGemini, pressed>>
    /\ UNCHANGED exceptChat

\* A CSV file of the given number of non-blank lines is dropped or picked:
\* parseCSV, then parseCsvToRows, enrichWithEngagement and the summary and
\* the key columns of the rows (the files have a key column).
IngestCsv ==
    /\ \E lines \in CsvLineCounts :
        IF lines = 0
        THEN \* parseCSV returns null
             UNCHANGED <<csvContext, sessionCsvRows, csvDataSummary, sessionSlimCsv>>
        ELSE /\ csvContext' = [set |-> TRUE, rowCount |-> lines - 1]
             /\ sessionCsvRows' = [loaded |-> TRUE, n |-> IF lines < 2 THEN 0 ELSE lines - 1]
             /\ csvDataSummary' = IF lines < 2 THEN "" ELSE "summary"
             /\ sessionSlimCsv' = IF lines < 2 THEN "" ELSE "slim"
    /\ UNCHANGED <<images, jsonContext, messages, streaming, route>>
    /\ UNCHANGED <<promptForGemini, pressed>>
    /\ UNCHANGED exceptChat

\* A JSON file with the given number of items is dropped or picked.
IngestJson ==
    /\ \E items \in JsonItemCounts :
        IF items = 0
        THEN \* loadJsonAsRows returns null
             UNCHANGED <<jsonContext, sessionCsvRows, csvDataSummary, sessionSlimCsv>>
        ELSE /\ jsonContext' = [set |-> TRUE, videoCount |-> items]
             /\ sessionCsvRows' = [loaded |-> TRUE, n |-> items]
             /\ csvDataSummary' = "summary"
             /\ sessionSlimCsv' = "null"
    /\ UNCHANGED <<images, csvContext, messages, streaming, route>>
    /\ UNCHANGED <<promptForGemini, pressed>>
    /\ UNCHANGED exceptChat

\* The x of the attachment chip
RemoveAttachment ==
    /\ csvContext.set \/ jsonContext.set
    /\ csvContext' = NullCsv
    /\ jsonContext' = NullJson
    /\ sessionCsvRows' = NullRows
    /\ UNCHANGED <<images, messages, streaming, route>>
    /\ UNCHANGED <<csvDataSummary, sessionSlimCsv, promptForGemini, pressed>>
    /\ UNCHANGED exceptChat

\* handleNewChat
HandleNewChat ==
    /\ messages' = <<>>
    /\ images' = 0
    /\ csvContext' = NullCsv
    /\ jsonContext' = NullJson
    /\ sessionCsvRows' = NullRows
    /\ UNCHANGED <<streaming, route>>
    /\ UNCHANGED <<csvDataSummary, sessionSlimCsv, promptForGemini, pressed>>
    /\ UNCHANGED exceptChat

\* handleSelectSession, for a session other than the active one; its
\* messages are loaded once the active session has changed.
HandleSelectSession ==
    /\ \E stored \in StoredMessages : messages' = stored
    /\ images' = 0
    /\ csvContext' = NullCsv
    /\ jsonContext' = NullJson
    /\ sessionCsvRows' = NullRows
    /\ UNCHANGED <<streaming, route>>
    /\ UNCHANGED <<csvDataSummary, sessionSlimCsv, promptForGemini, pressed>>
    /\ UNCHANGED exceptChat

\* userContent
UserContent(t, nImages, csv, json) ==
    IF t # <<>> THEN <<"text">>
    ELSE IF nImages > 0 THEN <<"(Image)">>
    ELSE IF csv.set \/ json.set THEN <<"(attached)">>
    ELSE <<>>

\* csvDataSummary || '' and sessionSlimCsv ? ... : ''
HasText(s) == s \notin {"null", ""}

\* csvPrefix and the text that follows it
PromptParts(f, t, nImages, csv, json, summary, slim) ==
    [prefix  |-> IF csv.set THEN "CSV File"
                 ELSE IF HasText(summary) THEN "Data columns" ELSE "",
     summary |-> HasText(summary),
     slim    |-> csv.set /\ HasText(slim),
     base64  |-> csv.set /\ f.needsBase64,
     request |-> IF t # <<>> THEN "text"
                 ELSE IF nImages > 0 THEN "What do you see in this image?"
                 ELSE IF json.set THEN "Please analyze this YouTube channel JSON data."
                 ELSE IF csv.set THEN "Please analyze this CSV data."
                 ELSE ""]

NoPrompt == [prefix |-> "", summary |-> FALSE, slim |-> FALSE, base64 |-> FALSE,
             request |-> ""]

\* The disabled attribute of the Send button, which is shown while no turn
\* is streaming.
SendDisabled(t, nImages, csv, json) ==
    t = <<>> /\ nImages = 0 /\ ~csv.set /\ ~json.set

\* Nothing but a JSON attachment is there to be sent.
JsonOnly(t, nImages, csv, json) ==
    t = <<>> /\ nImages = 0 /\ ~csv.set /\ json.set

NoPress == [pressed |-> FALSE, enabled |-> FALSE, jsonOnly |-> FALSE, started |-> FALSE]

\* The first line of handleSend: the conditions under which it returns at
\* once. (A session is active from the login on.)
SendReturns(t) == (t = <<>> /\ images = 0 /\ ~csvContext.set) \/ streaming

\* handleSend for the text t, up to the call of the model. t is
\* input.trim(): what the user has typed when Send is pressed;
\* setInput('') empties the box again.
Send(t) ==
    /\ ~SendReturns(t)
    /\ Len(messages) < 2 * MaxTurns
    /\ route' = Route(Flags(t, sessionCsvRows, csvContext, jsonContext, images, messages))
    /\ promptForGemini' =
            PromptParts(Flags(t, sessionCsvRows, csvContext, jsonContext, images, messages),
                        t, images, csvContext, jsonContext, csvDataSummary, sessionSlimCsv)
    /\ messages' = messages \o
            << [role |-> "user", content |-> UserContent(t, images, csvContext, jsonContext)],
               [role |-> "model", content |-> <<>>] >>
    /\ pressed' = [pressed |-> TRUE,
                   enabled |-> ~streaming /\ ~SendDisabled(t, images, csvContext, jsonContext),
                   jsonOnly |-> JsonOnly(t, images, csvContext, jsonContext),
                   started |-> TRUE]
    /\ images' = 0
    /\ csvContext' = NullCsv
    /\ jsonContext' = NullJson
    /\ streaming' = TRUE
    /\ UNCHANGED <<sessionCsvRows, csvDataSummary, sessionSlimCsv>>
    /\ UNCHANGED exceptChat

\* Send is pressed (the button, or Enter in the input) with any of the
\* texts a user may type.
HandleSend == \E text \in Utterances : Send(text)

\* The texts typed in the sessions that are followed from file to prompt.
ShortTexts == {<<>>, <<"yes">>, <<"regression">>}

\* Send is pressed with a short text.
SendShort == \E text \in ShortTexts : Send(text)

\* Send is pressed and handleSend returns at its first line.
SendIgnored ==
    /\ \E text \in ShortTexts :
        /\ SendReturns(text)
        /\ pressed' = [pressed |-> TRUE,
                       enabled |-> ~streaming /\ ~SendDisabled(text, images, csvContext, jsonContext),
                       jsonOnly |-> JsonOnly(text, images, csvContext, jsonContext),
                       started |-> FALSE]
    /\ UNCHANGED <<images, csvContext, jsonContext, sessionCsvRows, messages,
                   streaming, route, csvDataSummary, sessionSlimCsv, promptForGemini>>
    /\ UNCHANGED exceptChat

\* handleSend, from the answer of the model to setStreaming(false)
TurnCompletes ==
    /\ streaming
    /\ \E reply \in Replies :
        messages' = [messages EXCEPT ![Len(messages)].content = reply]
    /\ streaming' = FALSE
    /\ route' = NoRoute
    /\ promptForGemini' = NoPrompt
    /\ pressed' = NoPress
    /\ UNCHANGED <<images, csvContext, jsonContext, sessionCsvRows,
                   csvDataSummary, sessionSlimCsv>>
    /\ UNCHANGED exceptChat

InitChat ==
    /\ images = 0
    /\ csvContext = NullCsv
    /\ jsonContext = NullJson
    /\ sessionCsvRows = NullRows
    /\ messages = <<>>
    /\ streaming = FALSE
    /\ route = NoRoute
    /\ csvDataSummary = "null"
    /\ sessionSlimCsv = "null"
    /\ promptForGemini = NoPrompt
    /\ pressed = NoPress

NextChat ==
    \/ AttachImage
    \/ IngestCsv
    \/ IngestJson
    \/ RemoveAttachment
    \/ HandleNewChat
    \/ HandleSend
    \/ TurnCompletes

\* The sessions followed from the file to the prompt: every event of the
\* component, Send with a short text.
NextSession ==
    \/ AttachImage
    \/ IngestCsv
    \/ IngestJson
    \/ RemoveAttachment
    \/ HandleNewChat
    \/ HandleSelectSession
    \/ SendShort
    \/ SendIgnored
    \/ TurnCompletes

(***************************************************************************)
(*                    services/csvTools.js : executeTool                   *)
(*                                                                         *)
(* A string of the data (a header, a cell, a column argument) is a         *)
(* sequence of one-character strings. A row is a function from its keys to *)
(* its cells; a row set goes with the sequence of its keys in insertion    *)
(* order.                                                                  *)
(***************************************************************************)

\* undefined: the value of a missing argument and of a missing key.
Undefined == <<"undefined">>

\* c.toLowerCase()
Lower(c) ==
    CASE c = "A" -> "a"
      [] c = "B" -> "b"
      [] c = "C" -> "c"
      [] c = "D" -> "d"
      [] c = "E" -> "e"
      [] c = "F" -> "f"
      [] c = "G" -> "g"
      [] c = "H" -> "h"
      [] c = "I" -> "i"
      [] c = "J" -> "j"
      [] c = "K" -> "k"
      [] c = "L" -> "l"
      [] c = "M" -> "m"
      [] c = "N" -> "n"
      [] c = "O" -> "o"
      [] c = "P" -> "p"
      [] c = "Q" -> "q"
      [] c = "R" -> "r"
      [] c = "S" -> "s"
      [] c = "T" -> "t"
      [] c = "U" -> "u"
      [] c = "V" -> "v"
      [] c = "W" -> "w"
      [] c = "X" -> "x"
      [] c = "Y" -> "y"
      [] c = "Z" -> "z"
      [] OTHER -> c

\* \s, _ and - : the characters norm() removes.
IsSeparator(c) == c \in {" ", "_", "-"}

\* /\s/
IsSpace(c) == c = " "

IsDigit(c) == c \in {"0", "1", "2", "3", "4", "5", "6", "7", "8", "9"}

DigitValue(c) ==
    CASE c = "0" -> 0
      [] c = "1" -> 1
      [] c = "2" -> 2
      [] c = "3" -> 3
      [] c = "4" -> 4
      [] c = "5" -> 5
      [] c = "6" -> 6
      [] c = "7" -> 7
      [] c = "8" -> 8
      [] c = "9" -> 9

RECURSIVE Norm(_)
\* norm = (s) => s.toLowerCase().replace(/[\s_-]+/g, '')
Norm(s) ==
    IF s = <<>> THEN <<>>
    ELSE IF IsSeparator(Head(s)) THEN Norm(Tail(s))
    ELSE <<Lower(Head(s))>> \o Norm(Tail(s))

RECURSIVE ToLower(_)
ToLower(s) == IF s = <<>> THEN <<>> ELSE <<Lower(Head(s))>> \o ToLower(Tail(s))

\* s contains p at position i
MatchAt(s, p, i) ==
    /\ i + Len(p) - 1 <= Len(s)
    /\ \A k \in 1..Len(p) : s[i + k - 1] = p[k]

\* /p/i.test(s)
ContainsCI(s, p) == \E i \in 1..(Len(s) + 1) : MatchAt(ToLower(s), p, i)

\* /p.?q/i.test(s)
ContainsOptGapCI(s, p, q) ==
    \E i \in 1..(Len(s) + 1) :
        /\ MatchAt(ToLower(s), p, i)
        /\ \/ MatchAt(ToLower(s), q, i + Len(p))
           \/ (i + Len(p) <= Len(s) /\ MatchAt(ToLower(s), q, i + Len(p) + 1))

\* The elements of a sequence.
Elements(seq) == {seq[i] : i \in DOMAIN seq}

\* seq.find(test), for the set passing of the elements that pass the test:
\* the first of them in seq, or undefined
Find(seq, passing) ==
    IF \E i \in DOMAIN seq : seq[i] \in passing
    THEN seq[CHOOSE i \in DOMAIN seq :
                 seq[i] \in passing /\ \A j \in 1..(i - 1) : seq[j] \notin passing]
    ELSE Undefined

\* !x for a string argument: undefined and '' are falsy
Falsy(x) == x = Undefined \/ x = <<>>

\* a || b
OrElse(a, b) == IF Falsy(a) THEN b ELSE a

RECURSIVE SkipSpaces(_)
SkipSpaces(s) == IF s # <<>> /\ IsSpace(Head(s)) THEN SkipSpaces(Tail(s)) ELSE s

RECURSIVE DigitsValue(_, _)
\* The number written by the leading digits of s, after acc.
DigitsValue(s, acc) ==
    IF s = <<>> \/ ~IsDigit(Head(s)) THEN acc
    ELSE DigitsValue(Tail(s), acc * 10 + DigitValue(Head(s)))

RECURSIVE DigitRun(_)
\* The leading digits of s.
DigitRun(s) ==
    IF s = <<>> \/ ~IsDigit(Head(s)) THEN <<>> ELSE <<Head(s)>> \o DigitRun(Tail(s))

RECURSIVE Pow10(_)
Pow10(k) == IF k = 0 THEN 1 ELSE 10 * Pow10(k - 1)

RECURSIVE Normal(_, _)
\* A number is a decimal m / 10^e, written without trailing zeros so that
\* equal numbers are equal records.
Normal(m, e) ==
    IF e > 0 /\ m % 10 = 0 THEN Normal(m \div 10, e - 1) ELSE [m |-> m, e |-> e]

Zero == [m |-> 0, e |-> 0]

\* The whole number k as a number.
Whole(k) == [m |-> k, e |-> 0]

\* a < b
NumBelow(a, b) == a.m * Pow10(b.e) < b.m * Pow10(a.e)

\* a + b
Plus(a, b) ==
    LET e == IF a.e > b.e THEN a.e ELSE b.e
    IN  Normal(a.m * Pow10(e - a.e) + b.m * Pow10(e - b.e), e)

\* The integer and fraction digits that parseFloat reads from v: after
\* leading blanks, digits, then a point and digits. (Signs and exponents
\* are not among the modelled cells.)
NumeralOf(v) ==
    LET s    == SkipSpaces(v)
        int  == DigitRun(s)
        rest == SubSeq(s, Len(int) + 1, Len(s))
        frac == IF rest # <<>> /\ Head(rest) = "." THEN DigitRun(Tail(rest)) ELSE <<>>
    IN  [int |-> int, frac |-> frac]

\* isNaN(parseFloat(v))
IsNaNCell(v) ==
    \/ v = Undefined
    \/ (NumeralOf(v).int = <<>> /\ NumeralOf(v).frac = <<>>)

\* parseFloat(v), for a cell that parses
ParseFloat(v) ==
    LET n == NumeralOf(v) IN Normal(DigitsValue(n.int \o n.frac, 0), Len(n.frac))

\* r[col]
Cell(r, col) == IF col \in DOMAIN r THEN r[col] ELSE Undefined

\* InsertSorted with x put in front of the elements it ties with.
InsertSortedFront(s, x, before) ==
    LET j == CHOOSE k \in 0..Len(s) :
                 /\ k = 0 \/ <<s[k], x>> \in before
                 /\ \A l \in (k + 1)..Len(s) : <<s[l], x>> \notin before
    IN  SubSeq(s, 1, j) \o <<x>> \o SubSeq(s, j + 1, Len(s))

\* The insertion step of the sort: x goes behind the last element it does
\* not precede.
InsertSorted(s, x, before) ==
    LET j == CHOOSE k \in 0..Len(s) :
                 /\ k = 0 \/ <<x, s[k]>> \notin before
                 /\ \A l \in (k + 1)..Len(s) : <<x, s[l]>> \in before
    IN  SubSeq(s, 1, j) \o <<x>> \o SubSeq(s, j + 1, Len(s))

\* [...seq].sort(cmp), for the set before of the pairs <<a, b>> of elements
\* with cmp(a, b) < 0: each element in turn is inserted into the sorted
\* elements before it.
StableSort(seq, before) ==
    LET sorted[k \in 0..Len(seq)] ==
            IF k = 0 THEN <<>> ELSE InsertSorted(sorted[k - 1], seq[k], before)
    IN  sorted[Len(seq)]

\* A key written as an array index: "0", or digits without a leading zero.
IsArrayIndex(k) ==
    /\ k # <<>>
    /\ k # Undefined
    /\ \A i \in DOMAIN k : IsDigit(k[i])
    /\ (k[1] = "0" => Len(k) = 1)

IsNamedKey(k) == ~IsArrayIndex(k)

\* The pairs of keys in ascending numeric order.
IndexLess(keys) ==
    {p \in Elements(keys) \X Elements(keys) : DigitsValue(p[1], 0) < DigitsValue(p[2], 0)}

\* The order in which an object enumerates keys inserted in the order of
\* keys: array indices ascending, then the other keys as inserted.
KeyOrder(keys) ==
    LET indices == SelectSeq(keys, IsArrayIndex)
    IN  StableSort(indices, IndexLess(indices)) \o SelectSeq(keys, IsNamedKey)

\* availableHeaders: Object.keys(rows[0])
ObjectKeys(data) == IF data.rows = <<>> THEN <<>> ELSE KeyOrder(data.headers)

\* keys.includes(name)
Includes(seq, x) == x \in Elements(seq)

\* resolveCol
ResolveCol(data, name) ==
    IF data.rows = <<>> \/ Falsy(name) THEN name
    ELSE LET keys == ObjectKeys(data)
             target == Norm(name)
             sameNorm == {k \in Elements(keys) : Norm(k) = target}
         IN  IF Includes(keys, name) THEN name
             ELSE OrElse(Find(keys, sameNorm), name)

RECURSIVE NumericOf(_, _)
\* numericValues(rows, col)
NumericOf(rows, col) ==
    IF rows = <<>> THEN <<>>
    ELSE (IF IsNaNCell(Cell(Head(rows), col)) THEN <<>>
          ELSE <<ParseFloat(Cell(Head(rows), col))>>) \o NumericOf(Tail(rows), col)

NumericValues(rows, col) == NumericOf(rows, col)

RECURSIVE SumOf(_)
\* vals.reduce((a, b) => a + b, 0)
SumOf(vals) == IF vals = <<>> THEN Zero ELSE Plus(Head(vals), SumOf(Tail(vals)))

\* The numbers of vals as whole multiples of 10^-e, for e the most decimals
\* any of them has.
Decimals(vals) == IF vals = <<>> THEN 0 ELSE CHOOSE e \in {vals[i].e : i \in DOMAIN vals} :
                                                  \A i \in DOMAIN vals : vals[i].e <= e

Scaled(vals) == [i \in DOMAIN vals |-> vals[i].m * Pow10(Decimals(vals) - vals[i].e)]

RECURSIVE SumInts(_)
SumInts(ks) == IF ks = <<>> THEN 0 ELSE Head(ks) + SumInts(Tail(ks))

RECURSIVE SumSquares(_)
SumSquares(ks) == IF ks = <<>> THEN 0 ELSE Head(ks) * Head(ks) + SumSquares(Tail(ks))

\* Math.min(...vals), Math.max(...vals)
MinOf(vals) == CHOOSE v \in Elements(vals) : \A w \in Elements(vals) : ~NumBelow(w, v)
MaxOf(vals) == CHOOSE v \in Elements(vals) : \A w \in Elements(vals) : ~NumBelow(v, w)

\* fmt = (n) => +n.toFixed(4), for n = num / den with num >= 0: the nearest
\* multiple of 10^-4. (No modelled value lies halfway between two.)
Fmt(num, den) ==
    LET d == den * Pow10(num.e)
    IN  Normal((2 * num.m * 10000 + d) \div (2 * d), 4)

\* median(sorted)
Median(sorted) ==
    IF Len(sorted) % 2 = 0
    THEN Fmt(Plus(sorted[Len(sorted) \div 2], sorted[Len(sorted) \div 2 + 1]), 2)
    ELSE Fmt(sorted[Len(sorted) \div 2 + 1], 1)

\* (a, b) => a - b
NumLess(vals) == {p \in Elements(vals) \X Elements(vals) : NumBelow(p[1], p[2])}

\* variance, exactly: the fraction num / den in units of 10^(-2 e)
Variance(vals) ==
    LET ks == Scaled(vals)
        n  == Len(vals)
    IN  [num |-> n * SumSquares(ks) - SumInts(ks) * SumInts(ks),
         den |-> n * n,
         e   |-> 2 * Decimals(vals)]

\* An error mapping. names: the column names quoted in the message;
\* available: the headers the message enumerates, when it does.
ErrorResult(message, names, enumerates, available) ==
    [error |-> [message |-> message, names |-> names,
                enumerates |-> enumerates,
                available |-> IF enumerates THEN available ELSE <<>>]]

\* case 'compute_column_stats' and case 'compute_stats_json'
ColumnStats(data, arg, key, message) ==
    LET col  == ResolveCol(data, arg)
        vals == NumericValues(data.rows, col)
    IN  IF vals = <<>>
        THEN ErrorResult(message, <<col>>, TRUE, ObjectKeys(data))
        ELSE LET sum    == SumOf(vals)
                 n      == Len(vals)
                 sorted == StableSort(vals, NumLess(vals))
             IN  [kind     |-> key,
                  column   |-> col,
                  count    |-> n,
                  mean     |-> Fmt(sum, n),
                  median   |-> Median(sorted),
                  \* std is fmt of the square root of this fraction
                  variance |-> Variance(vals),
                  min      |-> MinOf(vals),
                  max      |-> MaxOf(vals)]

RECURSIVE FirstSeen(_, _, _)
\* The distinct non-empty values of column col in the order in which the
\* rows bring them: the keys of counts.
FirstSeen(rows, col, seen) ==
    IF rows = <<>> THEN seen
    ELSE LET v == Cell(Head(rows), col)
         IN  FirstSeen(Tail(rows), col,
                       IF v = Undefined \/ v = <<>> \/ Includes(seen, v) THEN seen
                       ELSE Append(seen, v))

CountOf(rows, col, v) == Cardinality({i \in DOMAIN rows : Cell(rows[i], col) = v})

\* Object.entries(counts).sort((a, b) => b[1] - a[1]).slice(0, k): the
\* <<value, count>> entries of a column, most frequent first.
TopEntries(rows, col, k) ==
    LET keys    == KeyOrder(FirstSeen(rows, col, <<>>))
        entries == [i \in DOMAIN keys |-> <<keys[i], CountOf(rows, col, keys[i])>>]
        more    == {p \in Elements(entries) \X Elements(entries) : p[1][2] > p[2][2]}
        sorted  == StableSort(entries, more)
    IN  SubSeq(sorted, 1, IF Len(sorted) < k THEN Len(sorted) ELSE k)

\* case 'get_value_counts': the value_counts object as the sequence of its
\* <<value, count>> entries in enumeration order.
ValueCounts(data, args) ==
    LET col     == ResolveCol(data, args.column)
        topN    == IF args.top_n = 0 THEN 10 ELSE args.top_n
        kept    == TopEntries(data.rows, col, topN)
        outKeys == KeyOrder([i \in DOMAIN kept |-> kept[i][1]])
    IN  [kind         |-> "value_counts",
         column       |-> col,
         total_rows   |-> Len(data.rows),
         value_counts |-> [i \in DOMAIN outKeys |->
                              <<outKeys[i], CountOf(data.rows, col, outKeys[i])>>]]

IsTextHeader(h) == ToLower(h) = <<"t", "e", "x", "t">>
LikeTextHeader(h) ==
    \/ ContainsCI(h, <<"t", "e", "x", "t">>)
    \/ ContainsCI(h, <<"c", "o", "n", "t", "e", "n", "t">>)
    \/ ContainsCI(h, <<"t", "w", "e", "e", "t">>)
    \/ ContainsCI(h, <<"b", "o", "d", "y">>)
IsFavHeader(h) == ContainsOptGapCI(h, <<"f", "a", "v", "o", "r", "i", "t", "e">>, <<"c", "o", "u", "n", "t">>)
IsViewHeader(h) == ContainsOptGapCI(h, <<"v", "i", "e", "w">>, <<"c", "o", "u", "n", "t">>)

Engagement == <<"e", "n", "g", "a", "g", "e", "m", "e", "n", "t">>

\* String(r[textCol] || '').slice(0, 150)
Slice150(v) == IF Falsy(v) THEN <<>> ELSE SubSeq(v, 1, IF Len(v) < 150 THEN Len(v) ELSE 150)

\* resolveCol(safeRows, args.sort_column) || args.sort_column
SortCol(data, args) == OrElse(ResolveCol(data, args.sort_column), args.sort_column)

\* args.n || 10
TopN(args) == IF args.n = 0 THEN 10 ELSE args.n

\* [...safeRows].sort(cmp).slice(0, n)
TopRows(data, args) ==
    LET sortCol == SortCol(data, args)
        n       == TopN(args)
        asc     == args.ascending
        before  ==
            {p \in Elements(data.rows) \X Elements(data.rows) :
                /\ ~IsNaNCell(Cell(p[1], sortCol))
                /\ ~IsNaNCell(Cell(p[2], sortCol))
                /\ IF asc
                   THEN NumBelow(ParseFloat(Cell(p[1], sortCol)), ParseFloat(Cell(p[2], sortCol)))
                   ELSE NumBelow(ParseFloat(Cell(p[2], sortCol)), ParseFloat(Cell(p[1], sortCol)))}
        sorted  == StableSort(data.rows, before)
    IN  SubSeq(sorted, 1, IF Len(sorted) < n THEN Len(sorted) ELSE n)

\* case 'get_top_tweets'
TopTweets(data, args) ==
    LET headers == ObjectKeys(data)
        sortCol == SortCol(data, args)
        asc     == args.ascending
        textCol == OrElse(Find(headers, {h \in Elements(headers) : IsTextHeader(h)}),
                          Find(headers, {h \in Elements(headers) : LikeTextHeader(h)}))
        favCol  == Find(headers, {h \in Elements(headers) : IsFavHeader(h)})
        viewCol == Find(headers, {h \in Elements(headers) : IsViewHeader(h)})
        hasEng  == Includes(headers, Engagement)
        top     == TopRows(data, args)
        topRows == [i \in DOMAIN top |->
                        [rank       |-> i,
                         text       |-> IF textCol = Undefined THEN Undefined
                                        ELSE Slice150(Cell(top[i], textCol)),
                         fav        |-> IF favCol = Undefined THEN Undefined
                                        ELSE Cell(top[i], favCol),
                         view       |-> IF viewCol = Undefined THEN Undefined
                                        ELSE Cell(top[i], viewCol),
                         engagement |-> IF hasEng THEN Cell(top[i], Engagement)
                                        ELSE Undefined]]
    IN  IF topRows = <<>>
        THEN ErrorResult("No rows found. Column may not exist.", <<sortCol>>, TRUE, headers)
        ELSE [kind        |-> "top_tweets",
              sort_column |-> sortCol,
              direction   |-> IF asc THEN "ascending (lowest first)"
                              ELSE "descending (highest first)",
              count       |-> Len(topRows),
              tweets      |-> topRows]

\* new Date(dateVal).getTime() for the date cells of the modelled data, in
\* days; every other cell of the columns read as dates is no date.
DateTable ==
    (<<"2", "0", "2", "4", "-", "0", "1", "-", "0", "2">> :> 19724) @@ (<<"2", "0", "2", "4", "-", "0", "1", "-", "0", "1">> :> 19723)

IsInvalidDate(v) == v \notin DOMAIN DateTable

RECURSIVE DatedValues(_, _, _)
\* The {date, parsed, value} entries of the rows that have both.
DatedValues(rows, metricCol, dateCol) ==
    IF rows = <<>> THEN <<>>
    ELSE LET dateVal == Cell(Head(rows), dateCol)
             numCell == Cell(Head(rows), metricCol)
         IN  (IF Falsy(dateVal) \/ IsNaNCell(numCell) \/ IsInvalidDate(dateVal) THEN <<>>
              ELSE << [date |-> dateVal, parsed |-> DateTable[dateVal],
                       value |-> ParseFloat(numCell)] >>)
             \o DatedValues(Tail(rows), metricCol, dateCol)

\* case 'plot_metric_vs_time'
PlotMetricVsTime(data, args) ==
    IF data.rows = <<>>
    THEN ErrorResult("No channel data loaded.", <<>>, FALSE, <<>>)
    ELSE LET metricCol == ResolveCol(data, args.metric_column)
             dateCol   == ResolveCol(data, args.date_column)
             vals      == DatedValues(data.rows, metricCol, dateCol)
             earlier   == {p \in Elements(vals) \X Elements(vals) : p[1].parsed < p[2].parsed}
         IN  IF vals = <<>>
             THEN ErrorResult("No valid date+metric pairs.", <<metricCol, dateCol>>,
                              TRUE, ObjectKeys(data))
             ELSE [kind         |-> "metric_vs_time",
                   \* each entry's label is its parsed date, formatted
                   data         |-> StableSort(vals, earlier),
                   metricColumn |-> metricCol,
                   dateColumn   |-> dateCol]

\* +x.toFixed(2) of the fraction num / den
ToFixed2(num, den) ==
    LET d == den * Pow10(num.e)
    IN  Normal((2 * num.m * 100 + d) \div (2 * d), 2)

\* The cells of a column that are neither '' nor undefined.
FilledCells(rows, h) ==
    LET cells == [i \in DOMAIN rows |-> Cell(rows[i], h)]
        filled(v) == v # <<>> /\ v # Undefined
    IN  SelectSeq(cells, filled)

\* headers.forEach((h) => ...): what the summary says of one column
SummaryColumn(rows, h) ==
    LET vals    == FilledCells(rows, h)
        numVals == NumericValues(rows, h)
    IN  IF /\ 5 * Len(numVals) >= 4 * (IF vals = <<>> THEN 1 ELSE Len(vals))
           /\ Len(numVals) > 0
        THEN [type  |-> "numeric",
              name  |-> h,
              count |-> Len(numVals),
              mean  |-> ToFixed2(SumOf(numVals), Len(numVals)),
              min   |-> MinOf(numVals),
              max   |-> MaxOf(numVals)]
        ELSE [type   |-> "categorical",
              name   |-> h,
              unique |-> Len(FirstSeen(rows, h, <<>>)),
              top    |-> TopEntries(rows, h, 5)]

\* The summary of no dataset: ''
EmptySummary == [rows |-> 0, columns |-> 0, cols |-> <<>>]

\* computeDatasetSummary(rows, headers): the columns in header order, each
\* of them numeric or categorical
ComputeDatasetSummary(rows, headers) ==
    IF rows = <<>> \/ headers = <<>> THEN EmptySummary
    ELSE [rows    |-> Len(rows),
          columns |-> Len(headers),
          cols    |-> [i \in DOMAIN headers |-> SummaryColumn(rows, headers[i])]]

\* The headers of the row sets that are checked.
hText == <<"t", "e", "x", "t">>
hLanguage == <<"l", "a", "n", "g", "u", "a", "g", "e">>
hFavorite == <<"F", "a", "v", "o", "r", "i", "t", "e", " ", "C", "o", "u", "n", "t">>
hView == <<"V", "i", "e", "w", " ", "C", "o", "u", "n", "t">>
hCreated == <<"c", "r", "e", "a", "t", "e", "d", "_", "a", "t">>
\* The literals of play_video.
hTitle == <<"t", "i", "t", "l", "e">>
hVideoUrl == <<"v", "i", "d", "e", "o", "U", "r", "l">>
hVideoId == <<"v", "i", "d", "e", "o", "I", "d">>
hViewCount == <<"v", "i", "e", "w", "C", "o", "u", "n", "t">>
hThumbnail == <<"t", "h", "u", "m", "b", "n", "a", "i", "l">>
NAME == <<"n", "a", "m", "e">>
LIKE == <<"l", "i", "k", "e">>
VIEW == <<"v", "i", "e", "w">>
VIDEOTITLE == <<"v", "i", "d", "e", "o", "T", "i", "t", "l", "e">>
VIDEO_URL == <<"v", "i", "d", "e", "o", "_", "u", "r", "l">>
URL == <<"u", "r", "l">>
VIDEO_ID == <<"v", "i", "d", "e", "o", "_", "i", "d">>
ID == <<"i", "d">>
VIEWS == <<"v", "i", "e", "w", "s">>
HTTP == <<"h", "t", "t", "p", ":", "/", "/">>
HTTPS == <<"h", "t", "t", "p", "s", ":", "/", "/">>
WATCH == <<"h", "t", "t", "p", "s", ":", "/", "/", "w", "w", "w", ".", "y", "o", "u", "t", "u", "b", "e", ".", "c", "o", "m", "/", "w", "a", "t", "c", "h", "?", "v", "=">>
WATCH_VIDEO == <<"W", "a", "t", "c", "h", " ", "v", "i", "d", "e", "o">>

\* The smallest member of a non-empty set of indices: Array.prototype.find
Least(S) == CHOOSE i \in S : \A j \in S : i <= j

\* String(x).trim(), for the spaces of the modelled data
RECURSIVE TrimEnd(_)
TrimEnd(s) == IF s # <<>> /\ IsSpace(s[Len(s)]) THEN TrimEnd(SubSeq(s, 1, Len(s) - 1)) ELSE s

Trim(s) == TrimEnd(SkipSpaces(s))

\* null, where the code keeps it apart from undefined
Null == <<"null">>

\* /^https?:\/\//i.test(url)
IsHttpUrl(url) ==
    \/ MatchAt(ToLower(url), HTTP, 1)
    \/ MatchAt(ToLower(url), HTTPS, 1)

\* `https://www.youtube.com/watch?v=${url}`
WatchUrl(id) == WATCH \o id

\* The columns play_video reads, found from the headers.
TitleCol(headers) ==
    OrElse(Find(headers, {h \in Elements(headers) : ToLower(h) = hTitle}),
           Find(headers, {h \in Elements(headers) :
                            \/ ContainsCI(h, hTitle)
                            \/ ContainsCI(h, NAME)
                            \/ ContainsCI(h, ToLower(VIDEOTITLE))
                            \/ ContainsCI(h, hText)}))

UrlCol(headers) ==
    OrElse(Find(headers, {h \in Elements(headers) : ToLower(h) = ToLower(hVideoUrl)}),
           Find(headers, {h \in Elements(headers) :
                            \/ ContainsCI(h, ToLower(hVideoUrl))
                            \/ ContainsCI(h, VIDEO_URL)
                            \/ ContainsCI(h, URL)}))

IdCol(headers) ==
    OrElse(Find(headers, {h \in Elements(headers) : ToLower(h) = ToLower(hVideoId)}),
           Find(headers, {h \in Elements(headers) :
                            \/ ContainsCI(h, ToLower(hVideoId))
                            \/ ContainsCI(h, VIDEO_ID)
                            \/ ContainsCI(h, ID)}))

PlayViewCol(headers) ==
    OrElse(Find(headers, {h \in Elements(headers) : ToLower(h) = ToLower(hViewCount)}),
           Find(headers, {h \in Elements(headers) :
                            \/ ContainsCI(h, ToLower(hViewCount))
                            \/ IsViewHeader(h)
                            \/ ContainsCI(h, VIEWS)}))

ThumbCol(headers) == Find(headers, {h \in Elements(headers) : ContainsCI(h, hThumbnail)})

\* pickMatch(match): the display record after it, from the one before it
PickMatch(headers, match, shown) ==
    LET rawUrl == OrElse(Cell(match, UrlCol(headers)), Cell(match, IdCol(headers)))
        title  == Cell(match, TitleCol(headers))
        thumb  == Cell(match, ThumbCol(headers))
    IN  IF Falsy(rawUrl) THEN shown
        ELSE [url          |-> Trim(rawUrl),
              title        |-> IF TitleCol(headers) # Undefined /\ ~Falsy(title)
                               THEN title ELSE shown.title,
              thumbnailUrl |-> IF ThumbCol(headers) # Undefined /\ ~Falsy(thumb)
                               THEN thumb ELSE shown.thumbnailUrl]

\* parseFloat(cell) || 0
ViewsOf(row, col) ==
    IF IsNaNCell(Cell(row, col)) THEN Zero ELSE ParseFloat(Cell(row, col))

\* The record play_video ends with, once a URL is known.
OpenResult(shown) ==
    IF shown.url = <<>>
    THEN ErrorResult("Provide video_url, search_by_title, most_viewed: true, or ordinal.",
                     <<>>, FALSE, <<>>)
    ELSE [kind         |-> "play_video",
          openUrl      |-> IF IsHttpUrl(shown.url) THEN shown.url ELSE WatchUrl(shown.url),
          title        |-> shown.title,
          thumbnailUrl |-> shown.thumbnailUrl]

\* OrdinalIndex without the step from counting at 1 to counting at 0.
OrdinalIndexFromOne(ordinal) == ordinal

\* Math.floor(args.ordinal) - 1
OrdinalIndex(ordinal) == ordinal - 1

\* case 'play_video'
PlayVideo(data, args) ==
    LET headers == ObjectKeys(data)
        given   == [url          |-> Trim(OrElse(args.video_url, <<>>)),
                    title        |-> OrElse(args.title, WATCH_VIDEO),
                    thumbnailUrl |-> OrElse(args.thumbnail_url, Null)]
        titleCol == TitleCol(headers)
        viewCol  == PlayViewCol(headers)
    IN  IF given.url = <<>> /\ ~Falsy(args.search_by_title)
        THEN LET searchTerm == ToLower(Trim(args.search_by_title))
                 found == {i \in DOMAIN data.rows :
                             ContainsCI(OrElse(Cell(data.rows[i], titleCol), <<>>), searchTerm)}
             IN  IF searchTerm = <<>>
                 THEN ErrorResult("search_by_title cannot be empty", <<>>, FALSE, <<>>)
                 ELSE IF titleCol = Undefined
                 THEN ErrorResult("No title column found in channel data.", <<>>, TRUE, headers)
                 ELSE IF found = {}
                 THEN ErrorResult("No video found with that in the title.",
                                  <<args.search_by_title>>, FALSE, <<>>)
                 ELSE OpenResult(PickMatch(headers, data.rows[Least(found)], given))
        ELSE IF given.url = <<>> /\ args.most_viewed
        THEN IF viewCol = Undefined
             THEN ErrorResult("No view count column found.", <<>>, TRUE, headers)
             ELSE LET before ==
                          {p \in Elements(data.rows) \X Elements(data.rows) :
                              NumBelow(ViewsOf(p[2], viewCol), ViewsOf(p[1], viewCol))}
                      sorted == StableSort(data.rows, before)
                  IN  IF sorted = <<>> THEN OpenResult(given)
                      ELSE OpenResult(PickMatch(headers, sorted[1], given))
        ELSE IF given.url = <<>> /\ args.ordinal >= 1
        THEN LET idx == OrdinalIndex(args.ordinal)
             IN  IF idx + 1 \notin DOMAIN data.rows
                 THEN ErrorResult("There is no such video. Only that many video(s) in the data.",
                                  <<>>, FALSE, <<>>)
                 ELSE OpenResult(PickMatch(headers, data.rows[idx + 1], given))
        ELSE OpenResult(given)

\* The digits of JavaScript's decimal notation.
DigitChars == <<"0", "1", "2", "3", "4", "5", "6", "7", "8", "9">>

RECURSIVE NatChars(_)
\* String(n) for a whole number n >= 0
NatChars(n) ==
    IF n < 10 THEN <<DigitChars[n + 1]>>
    ELSE NatChars(n \div 10) \o <<DigitChars[(n % 10) + 1]>>

RECURSIVE FracChars(_, _)
\* The e digits of the fraction f / 10^e
FracChars(f, e) ==
    IF e = 0 THEN <<>> ELSE FracChars(f \div 10, e - 1) \o <<DigitChars[(f % 10) + 1]>>

\* String(x) for a number x >= 0.000001: what a cell that holds a Number
\* reads as
NumToChars(x) ==
    IF x.e = 0 THEN NatChars(x.m)
    ELSE NatChars(x.m \div Pow10(x.e)) \o <<".">> \o FracChars(x.m % Pow10(x.e), x.e)

\* +(a / b).toFixed(6)
ToFixed6(a, b) ==
    LET num == a.m * Pow10(b.e)
        den == b.m * Pow10(a.e)
    IN  Normal((2 * num * 1000000 + den) \div (2 * den), 6)

\* /^likes?$/i and /^views?$/i
IsLikesHeader(h) == ToLower(h) \in {LIKE, LIKE \o <<"s">>}
IsViewsHeader(h) == ToLower(h) \in {VIEW, VIEW \o <<"s">>}

\* The engagement cell of a row: the ratio as a Number, or null
EngagementOf(r, favCol, viewCol) ==
    LET fav  == Cell(r, favCol)
        view == Cell(r, viewCol)
    IN  IF ~IsNaNCell(fav) /\ ~IsNaNCell(view) /\ ParseFloat(view).m > 0
        THEN NumToChars(ToFixed6(ParseFloat(fav), ParseFloat(view)))
        ELSE Null

\* { ...r, engagement: eng }
WithEngagement(r, eng) ==
    [h \in DOMAIN r \cup {Engagement} |-> IF h = Engagement THEN eng ELSE r[h]]

\* enrichWithEngagement with the test for an engagement header left out.
EnrichAgain(rows, headers) ==
    LET favCol  == OrElse(Find(headers, {h \in Elements(headers) : IsFavHeader(h)}),
                          Find(headers, {h \in Elements(headers) : IsLikesHeader(h)}))
        viewCol == OrElse(Find(headers, {h \in Elements(headers) : IsViewHeader(h)}),
                          Find(headers, {h \in Elements(headers) : IsViewsHeader(h)}))
    IN  IF rows = <<>> THEN [rows |-> rows, headers |-> headers]
        ELSE IF Falsy(favCol) \/ Falsy(viewCol) THEN [rows |-> rows, headers |-> headers]
        ELSE [rows    |-> [i \in DOMAIN rows |->
                              WithEngagement(rows[i], EngagementOf(rows[i], favCol, viewCol))],
              headers |-> Append(headers, Engagement)]

\* enrichWithEngagement(rows, headers)
EnrichWithEngagement(rows, headers) ==
    LET favCol  == OrElse(Find(headers, {h \in Elements(headers) : IsFavHeader(h)}),
                          Find(headers, {h \in Elements(headers) : IsLikesHeader(h)}))
        viewCol == OrElse(Find(headers, {h \in Elements(headers) : IsViewHeader(h)}),
                          Find(headers, {h \in Elements(headers) : IsViewsHeader(h)}))
    IN  IF rows = <<>> THEN [rows |-> rows, headers |-> headers]
        ELSE IF Falsy(favCol) \/ Falsy(viewCol) THEN [rows |-> rows, headers |-> headers]
        ELSE IF Includes(headers, Engagement) THEN [rows |-> rows, headers |-> headers]
        ELSE [rows    |-> [i \in DOMAIN rows |->
                              WithEngagement(rows[i], EngagementOf(rows[i], favCol, viewCol))],
              headers |-> Append(headers, Engagement)]

\* executeTool(toolName, args, rows)
ExecuteToolResult(toolName, args, data) ==
    CASE toolName = "compute_column_stats" ->
            ColumnStats(data, args.column, "column_stats", "No numeric values found in column.")
      [] toolName = "get_value_counts" -> ValueCounts(data, args)
      [] toolName = "get_top_tweets" -> TopTweets(data, args)
      [] toolName = "plot_metric_vs_time" -> PlotMetricVsTime(data, args)
      [] toolName = "play_video" -> PlayVideo(data, args)
      [] toolName = "compute_stats_json" ->
            ColumnStats(data, args.field, "stats_json", "No numeric values in field.")
      [] OTHER -> ErrorResult("Unknown tool", <<>>, FALSE, <<>>)

(***************************************************************************)
(*              The row sets and the tool calls that are checked           *)
(***************************************************************************)


\* A tweet export: three rows, one of them without numbers.
Tweets ==
    [headers |-> <<hText, hLanguage, hFavorite, hView>>,
     rows |-> <<
        (hText :> <<"h", "i">>) @@ (hLanguage :> <<"e", "n">>) @@
            (hFavorite :> <<"5">>) @@ (hView :> <<"5", "0">>),
        (hText :> <<"y", "o">>) @@ (hLanguage :> <<"f", "r">>) @@
            (hFavorite :> <<"1">>) @@ (hView :> <<"5">>),
        (hText :> <<"h", "i">>) @@ (hLanguage :> <<"e", "n">>) @@
            (hFavorite :> <<>>) @@ (hView :> <<"n", "/", "a">>) >>]

\* A dated export: two rows.
Dated ==
    [headers |-> <<hCreated, hView>>,
     rows |-> <<
        (hCreated :> <<"2", "0", "2", "4", "-", "0", "1", "-", "0", "2">>) @@ (hView :> <<"7">>),
        (hCreated :> <<"2", "0", "2", "4", "-", "0", "1", "-", "0", "1">>) @@ (hView :> <<"9">>) >>]

hScore == <<"s", "c", "o", "r", "e">>
hRatio == <<"r", "a", "t", "i", "o">>
hTag == <<"t", "a", "g">>

\* A channel export: three videos; the first carries a URL, the second only
\* an identifier, the third neither. Scores tie; tags are numbers and a word.
Videos ==
    [headers |-> <<hTitle, hVideoUrl, hVideoId, hViewCount, hScore, hRatio, hThumbnail, hTag>>,
     rows |-> <<
        (hTitle :> <<"C", "a", "t", "s">>) @@
            (hVideoUrl :> <<" ", "h", "t", "t", "p", "s", ":", "/", "/", "y", "/", "1">>) @@
            (hVideoId :> <<"a", "1">>) @@
            (hViewCount :> <<"5">>) @@
            (hScore :> <<"7">>) @@
            (hRatio :> <<"0", ".", "0", "0", "0", "0", "1">>) @@
            (hThumbnail :> <<"t", "1">>) @@
            (hTag :> <<"7">>),
        (hTitle :> <<"D", "o", "g", "s">>) @@
            (hVideoUrl :> <<>>) @@
            (hVideoId :> <<"b", "2">>) @@
            (hViewCount :> <<"5", "0">>) @@
            (hScore :> <<"3">>) @@
            (hRatio :> <<"0", ".", "0", "0", "0", "0", "1">>) @@
            (hThumbnail :> <<>>) @@
            (hTag :> <<"x">>),
        (hTitle :> <<>>) @@
            (hVideoUrl :> <<>>) @@
            (hVideoId :> <<>>) @@
            (hViewCount :> <<"1">>) @@
            (hScore :> <<"7">>) @@
            (hRatio :> <<"0", ".", "0", "0", "0", "0", "1">>) @@
            (hThumbnail :> <<>>) @@
            (hTag :> <<"3">>) >>]

\* No rows: what the executor is handed before any upload.
NoData == [headers |-> <<>>, rows |-> <<>>]

RowSets == {Tweets, Dated, Videos, NoData}

\* Column arguments: exact headers, other spellings of them, names of no
\* header, and a missing argument.
ColumnArgs ==
    {hView, <<"v", "i", "e", "w", "_", "c", "o", "u", "n", "t">>, <<"V", "I", "E", "W", " ", "C", "O", "U", "N", "T">>, hFavorite, hLanguage, hCreated,
     hViewCount, hScore, hRatio, hTag, Engagement,
     <<"C", "r", "e", "a", "t", "e", "d", "-", "A", "t">>, <<"l", "i", "k", "e", "s">>, <<"v", "i", "e", "w", " ", "c", "o", "u", "n", "t", "s">>, Undefined}

NoArgs ==
    [column |-> Undefined, top_n |-> 0, sort_column |-> Undefined, n |-> 0,
     ascending |-> FALSE, metric_column |-> Undefined, date_column |-> Undefined,
     field |-> Undefined, video_url |-> Undefined, title |-> Undefined,
     thumbnail_url |-> Undefined, search_by_title |-> Undefined,
     most_viewed |-> FALSE, ordinal |-> 0]

\* The ordinals asked for: within the rows of every row set, and beyond.
MaxOrdinal == 5
Ordinals == {1, 2, 3, MaxOrdinal}

\* The calls the assistant may make (0 stands for an omitted number).
ToolCalls ==
    {[tool |-> "compute_column_stats", args |-> [NoArgs EXCEPT !.column = c]] : c \in ColumnArgs}
    \cup {[tool |-> "compute_stats_json", args |-> [NoArgs EXCEPT !.field = c]] : c \in ColumnArgs}
    \cup {[tool |-> "get_value_counts", args |-> [NoArgs EXCEPT !.column = c, !.top_n = k]] :
            c \in ColumnArgs, k \in {0, 1}}
    \cup {[tool |-> "get_top_tweets",
           args |-> [NoArgs EXCEPT !.sort_column = c, !.n = k, !.ascending = a]] :
            c \in ColumnArgs, k \in {0, 2}, a \in BOOLEAN}
    \cup {[tool |-> "plot_metric_vs_time",
           args |-> [NoArgs EXCEPT !.metric_column = m, !.date_column = d]] :
            m \in {hView, <<"v", "i", "e", "w", "_", "c", "o", "u", "n", "t">>, <<"l", "i", "k", "e", "s">>},
            d \in {hCreated, <<"C", "r", "e", "a", "t", "e", "d", "-", "A", "t">>, hLanguage, <<"w", "h", "e", "n">>, Undefined}}
    \cup {[tool |-> "play_video", args |-> NoArgs]}
    \cup {[tool |-> "play_video", args |-> [NoArgs EXCEPT !.video_url = u]] :
            u \in {<<"h", "t", "t", "p", "s", ":", "/", "/", "y", "/", "9">>, <<"z", "z">>}}
    \cup {[tool |-> "play_video", args |-> [NoArgs EXCEPT !.search_by_title = s]] :
            s \in {<<"d", "o", "g">>, <<" ">>, <<"e", "m", "u">>}}
    \cup {[tool |-> "play_video", args |-> [NoArgs EXCEPT !.most_viewed = TRUE]]}
    \cup {[tool |-> "play_video", args |-> [NoArgs EXCEPT !.ordinal = k]] : k \in Ordinals}
    \cup {[tool |-> "summarize", args |-> NoArgs]}

NoCall == [tool |-> "none", args |-> NoArgs]

NoResult == [kind |-> "none"]

\* The kinds of dataset file.
FileKinds == {"csv", "json"}

NoFile == [kind |-> "none", parsed |-> NoData]

\* The rows of the session for a file of a kind: those of a CSV file get
\* the engagement column.
SessionRows(kind, d) ==
    IF kind = "csv" THEN EnrichWithEngagement(d.rows, d.headers) ELSE d

\* A dataset is uploaded: the session's rows are replaced and their summary
\* is computed.
LoadRows ==
    /\ \E d \in RowSets, kind \in FileKinds :
        /\ toolSource' = [kind |-> kind, parsed |-> d]
        /\ toolRows' = SessionRows(kind, d)
        /\ toolSummary' = ComputeDatasetSummary(SessionRows(kind, d).rows,
                                                SessionRows(kind, d).headers)
    /\ toolCall' = NoCall
    /\ toolResult' = NoResult
    /\ UNCHANGED exceptTools

\* The rows array after a call, had get_top_tweets sorted safeRows itself
\* (safeRows.sort(cmp)) and not a copy of it.
RowsSortedInPlace(tool, args, data) ==
    IF tool = "get_top_tweets"
    THEN [data EXCEPT !.rows = TopRows(data, [args EXCEPT !.n = Len(data.rows) + 1])]
    ELSE data

\* The rows array after a call of executeTool: every sort is applied to a
\* copy ([...vals], [...safeRows], the arrays built by map and filter), the
\* counts are kept in an object of the call, and no row is assigned to.
RowsAfter(tool, args, data) == data

\* The assistant asks for a tool call and executeTool answers it; the calls
\* of a turn are awaited one after the other.
ExecuteTool ==
    /\ toolCall = NoCall
    /\ \E c \in ToolCalls :
        /\ toolCall' = c
        /\ toolResult' = ExecuteToolResult(c.tool, c.args, toolRows)
        /\ toolRows' = RowsAfter(c.tool, c.args, toolRows)
    /\ UNCHANGED <<toolSource, toolSummary>>
    /\ UNCHANGED exceptTools

\* The result is handed back to the assistant, which may call again.
ToolCallReturned ==
    /\ toolCall # NoCall
    /\ toolCall' = NoCall
    /\ toolResult' = NoResult
    /\ UNCHANGED <<toolRows, toolSource, toolSummary>>
    /\ UNCHANGED exceptTools

InitTools ==
    /\ toolRows = NoData
    /\ toolSource = NoFile
    /\ toolSummary = EmptySummary
    /\ toolCall = NoCall
    /\ toolResult = NoResult

NextTools ==
    \/ LoadRows
    \/ ExecuteTool
    \/ ToolCallReturned

(***************************************************************************)
(*        components/Chat.js : handleDrop / handleFileSelect, in time      *)
(*                                                                         *)
(* A drop or a pick is a handler that awaits the text of its JSON file,    *)
(* sets the session state from it, then does the same for its CSV file.    *)
(* Handlers started one after the other run interleaved: each goes on when *)
(* the text it awaits has been read. Every part of the session's dataset   *)
(* state is recorded with the upload and the file that set it.             *)
(***************************************************************************)

\* How many drops and picks are followed.
MaxUploads == 2

\* The first file of each kind in a drop, by what its text holds; the text
\* of an unreadable file never arrives (r.onerror).
JsonFiles ==
    {[type |-> "json", content |-> c] : c \in {"videos", "noVideos", "malformed", "unreadable"}}
CsvFiles ==
    {[type |-> "csv", content |-> c] : c \in {"rows", "headerOnly", "blank", "unreadable"}}

\* The dataset files of one drop or pick, in the order the handler reads them.
Drops ==
    {<<j>> : j \in JsonFiles} \cup {<<c>> : c \in CsvFiles}
    \cup {<<j, c>> : j \in JsonFiles, c \in CsvFiles}

\* if (parsed): loadJsonAsRows found videos; parseCSV found a non-blank line
SetsSession(file) == file.content \in {"videos", "rows", "headerOnly"}

\* A part of the session state: the upload and file it was set from, and
\* what it was set to.
Part(id, file, value) == [upload |-> id, type |-> file.type, value |-> value]

Unset == [upload |-> 0, type |-> "none", value |-> "null"]

NoSessionData ==
    [csvContext |-> Unset, jsonContext |-> Unset, sessionCsvHeaders |-> Unset,
     sessionCsvRows |-> Unset, csvDataSummary |-> Unset, sessionSlimCsv |-> Unset]

\* The setters that follow the awaited text of a file.
AfterRead(data, id, file) ==
    CASE file.content = "videos" ->
            [data EXCEPT !.jsonContext = Part(id, file, "chip"),
                         !.sessionCsvHeaders = Part(id, file, "headers"),
                         !.sessionCsvRows = Part(id, file, "rows"),
                         !.csvDataSummary = Part(id, file, "summary"),
                         !.sessionSlimCsv = Part(id, file, "null")]
      [] file.content = "rows" ->
            [data EXCEPT !.csvContext = Part(id, file, "chip"),
                         !.sessionCsvHeaders = Part(id, file, "headers"),
                         !.sessionCsvRows = Part(id, file, "rows"),
                         !.csvDataSummary = Part(id, file, "summary"),
                         !.sessionSlimCsv = Part(id, file, "slim")]
      [] file.content = "headerOnly" ->
            \* parseCsvToRows gives no headers and no rows
            [data EXCEPT !.csvContext = Part(id, file, "chip"),
                         !.sessionCsvHeaders = Part(id, file, "empty"),
                         !.sessionCsvRows = Part(id, file, "empty"),
                         !.csvDataSummary = Part(id, file, "empty"),
                         !.sessionSlimCsv = Part(id, file, "empty")]
      [] OTHER -> data

\* reads without upload id
Without(f, id) == [k \in DOMAIN f \ {id} |-> f[k]]

NoTurnSent == [sent |-> FALSE, rows |-> Unset, summary |-> Unset,
               latestDone |-> FALSE, latest |-> 0]

\* The uploads that set the session state once they have run: one of their
\* files does, and the files before it can be read.
Effective(ups) ==
    {id \in DOMAIN ups :
        \E i \in DOMAIN ups[id] :
            /\ SetsSession(ups[id][i])
            /\ \A j \in 1..(i - 1) : ups[id][j].content # "unreadable"}

\* The greatest of a non-empty set of numbers, 0 for the empty set.
Greatest(S) == IF S = {} THEN 0 ELSE CHOOSE x \in S : \A y \in S : y <= x

\* A drop or a pick with dataset files: the handler runs up to its first
\* await fileToText.
StartUpload ==
    /\ Len(uploads) < MaxUploads
    /\ \E files \in Drops :
        /\ uploads' = Append(uploads, files)
        /\ reads' = reads @@ ((Len(uploads) + 1) :> 1)
    /\ UNCHANGED <<sessionData, sentTurn>>
    /\ UNCHANGED exceptUploads

\* The text awaited by a handler arrives: the handler sets the session
\* state from it and goes on to its next file, or ends.
ReadCompletes ==
    /\ \E id \in DOMAIN reads :
        LET file == uploads[id][reads[id]]
        IN  /\ file.content # "unreadable"
            /\ sessionData' = AfterRead(sessionData, id, file)
            /\ reads' = IF reads[id] < Len(uploads[id])
                        THEN [reads EXCEPT ![id] = reads[id] + 1]
                        ELSE Without(reads, id)
    /\ UNCHANGED <<uploads, sentTurn>>
    /\ UNCHANGED exceptUploads

\* The file cannot be read (r.onerror = reject): the handler ends there.
ReadFails ==
    /\ \E id \in DOMAIN reads :
        /\ uploads[id][reads[id]].content = "unreadable"
        /\ reads' = Without(reads, id)
    /\ UNCHANGED <<uploads, sessionData, sentTurn>>
    /\ UNCHANGED exceptUploads

\* handleSend reads the session state: the rows its tool calls run on and
\* the summary it sends.
SendWithData ==
    /\ sentTurn' = [sent |-> TRUE,
                    rows |-> sessionData.sessionCsvRows,
                    summary |-> sessionData.csvDataSummary,
                    latestDone |-> Len(uploads) \notin DOMAIN reads,
                    latest |-> Greatest(Effective(uploads))]
    /\ UNCHANGED <<uploads, reads, sessionData>>
    /\ UNCHANGED exceptUploads

InitUploads ==
    /\ uploads = <<>>
    /\ reads = <<>>
    /\ sessionData = NoSessionData
    /\ sentTurn = NoTurnSent

NextUploads ==
    \/ StartUpload
    \/ ReadCompletes
    \/ ReadFails
    \/ SendWithData

(***************************************************************************)
(*       components/Chat.js : handleSend and handleStop, step by step      *)
(*                                                                         *)
(* handleSend runs from one await to the next: the save of the user        *)
(* message, then the answer of the tool path or the chunks of the stream,  *)
(* then the save of the assistant message. handleStop may run between any  *)
(* two of these steps while the Stop button is shown (streaming is true).  *)
(***************************************************************************)

\* How many chunks of a stream are followed.
MaxChunks == 2

\* useTools / useCodeExecution / neither, as routed
Strategies == {"tools", "codeExecution", "search"}

\* chunk.type
ChunkTypes == {"text", "fullResponse", "grounding"}

\* What the turn accumulates in its local variables.
NoTurn ==
    [strategy |-> "none", fullContent |-> <<>>, structuredParts |-> FALSE,
     groundingData |-> FALSE, chunks |-> 0]

\* The assistant message in messages: none before the placeholder is added.
NoAssistant == [present |-> FALSE, content |-> <<>>, parts |-> FALSE, grounding |-> FALSE]

Placeholder == [present |-> TRUE, content |-> <<>>, parts |-> FALSE, grounding |-> FALSE]

NotStopped == [pressed |-> FALSE, at |-> "none", message |-> NoAssistant]

NothingSaved == [done |-> FALSE, content |-> <<>>]

\* errText
ErrText == <<"Error">>

\* streaming: from setStreaming(true) to setStreaming(false)
Streaming == turnPc # "idle"

\* handleSend up to await saveMessage(user): the turn is routed, the user
\* message added, setStreaming(true).
SendTurn ==
    /\ turnPc = "idle"
    /\ \E s \in Strategies : turn' = [NoTurn EXCEPT !.strategy = s]
    /\ turnPc' = "saveUser"
    /\ assistant' = NoAssistant
    /\ stopPressed' = NotStopped
    /\ saved' = NothingSaved
    /\ UNCHANGED abortRef
    /\ UNCHANGED exceptTurn

\* The user message is saved: the placeholder of the assistant message is
\* added and abortRef.current = false.
UserSaved ==
    /\ turnPc = "saveUser"
    /\ assistant' = Placeholder
    /\ abortRef' = FALSE
    /\ turnPc' = "model"
    /\ UNCHANGED <<turn, stopPressed, saved>>
    /\ UNCHANGED exceptTurn

\* saveMessage rejects outside the try: handleSend ends there, and
\* setStreaming(false) is not reached.
UserSaveFails ==
    /\ turnPc = "saveUser"
    /\ turnPc' = "abandoned"
    /\ UNCHANGED <<turn, abortRef, assistant, stopPressed, saved>>
    /\ UNCHANGED exceptTurn

\* chatWithCsvTools resolves: its answer becomes the message.
ToolsAnswer ==
    /\ turnPc = "model"
    /\ turn.strategy = "tools"
    /\ turn' = [turn EXCEPT !.fullContent = <<"answer">>]
    /\ assistant' = [assistant EXCEPT !.content = <<"answer">>]
    /\ turnPc' = "saveModel"
    /\ UNCHANGED <<abortRef, stopPressed, saved>>
    /\ UNCHANGED exceptTurn

\* The stream yields a chunk: the loop leaves when abortRef.current is set,
\* else takes the chunk in.
ChunkArrives ==
    /\ turnPc = "model"
    /\ turn.strategy # "tools"
    /\ turn.chunks < MaxChunks
    /\ \E type \in ChunkTypes :
        IF abortRef
        THEN /\ turnPc' = "saveModel"
             /\ UNCHANGED <<turn, assistant>>
        ELSE /\ turnPc' = "model"
             /\ CASE type = "text" ->
                       LET full == Append(turn.fullContent, "chunk")
                       IN  /\ turn' = [turn EXCEPT !.fullContent = full,
                                                   !.chunks = turn.chunks + 1]
                           /\ assistant' = [assistant EXCEPT !.content = full]
                  [] type = "fullResponse" ->
                       /\ turn' = [turn EXCEPT !.structuredParts = TRUE,
                                               !.chunks = turn.chunks + 1]
                       /\ assistant' = [assistant EXCEPT !.content = <<>>, !.parts = TRUE]
                  [] type = "grounding" ->
                       /\ turn' = [turn EXCEPT !.groundingData = TRUE,
                                               !.chunks = turn.chunks + 1]
                       /\ UNCHANGED assistant
    /\ UNCHANGED <<abortRef, stopPressed, saved>>
    /\ UNCHANGED exceptTurn

\* The stream ends.
StreamEnds ==
    /\ turnPc = "model"
    /\ turn.strategy # "tools"
    /\ turnPc' = "saveModel"
    /\ UNCHANGED <<turn, abortRef, assistant, stopPressed, saved>>
    /\ UNCHANGED exceptTurn

\* catch (err): the call of the model throws, on either path.
ModelFails ==
    /\ turnPc = "model"
    /\ turn' = [turn EXCEPT !.fullContent = ErrText]
    /\ assistant' = [assistant EXCEPT !.content = ErrText]
    /\ turnPc' = "saveModel"
    /\ UNCHANGED <<abortRef, stopPressed, saved>>
    /\ UNCHANGED exceptTurn

\* savedContent
SavedContent(t) == IF t.structuredParts THEN <<"parts text">> ELSE t.fullContent

\* After the try: the grounding is attached if any, and the assistant
\* message goes to saveMessage.
SaveModel ==
    /\ turnPc = "saveModel"
    /\ assistant' = [assistant EXCEPT !.grounding = turn.groundingData]
    /\ saved' = [done |-> TRUE, content |-> SavedContent(turn)]
    /\ turnPc' = "saved"
    /\ UNCHANGED <<turn, abortRef, stopPressed>>
    /\ UNCHANGED exceptTurn

\* The assistant message is saved: setStreaming(false).
ModelSaved ==
    /\ turnPc = "saved"
    /\ turnPc' = "idle"
    /\ UNCHANGED <<turn, abortRef, assistant, stopPressed, saved>>
    /\ UNCHANGED exceptTurn

\* saveMessage rejects for the assistant message: handleSend ends there,
\* before setStreaming(false).
ModelSaveFails ==
    /\ turnPc = "saved"
    /\ turnPc' = "abandoned"
    /\ UNCHANGED <<turn, abortRef, assistant, stopPressed, saved>>
    /\ UNCHANGED exceptTurn

\* handleStop: the Stop button is there while streaming is true.
HandleStop ==
    /\ Streaming
    /\ abortRef' = TRUE
    /\ stopPressed' = IF stopPressed.pressed THEN stopPressed
                      ELSE [pressed |-> TRUE, at |-> turnPc, message |-> assistant]
    /\ UNCHANGED <<turnPc, turn, assistant, saved>>
    /\ UNCHANGED exceptTurn

InitTurn ==
    /\ turnPc = "idle"
    /\ turn = NoTurn
    /\ abortRef = FALSE
    /\ assistant = NoAssistant
    /\ stopPressed = NotStopped
    /\ saved = NothingSaved

NextTurn ==
    \/ SendTurn
    \/ UserSaved
    \/ UserSaveFails
    \/ ToolsAnswer
    \/ ChunkArrives
    \/ StreamEnds
    \/ ModelFails
    \/ SaveModel
    \/ ModelSaved
    \/ ModelSaveFails
    \/ HandleStop

\* Every call handleSend awaits comes back, with a result or an error, and
\* a stream yields chunks until it ends; the user is not bound to press
\* anything.
FairTurn ==
    /\ WF_vars(UserSaved \/ UserSaveFails)
    /\ WF_vars(ToolsAnswer \/ ChunkArrives \/ StreamEnds \/ ModelFails)
    /\ WF_vars(SaveModel)
    /\ WF_vars(ModelSaved \/ ModelSaveFails)

(***************************************************************************)
(*                              Specifications                             *)
(***************************************************************************)

(***************************************************************************)
(*               services/csvTools.js : parseLine, parseCsvToRows          *)
(*                                                                         *)
(* A CSV text is a sequence of characters. The texts that are parsed are   *)
(* written from records of fields, a quoted field being its content        *)
(* between double quotes with every double quote of the content doubled.   *)
(***************************************************************************)

QUOTE == "\""
COMMA == ","
NEWLINE == "\n"

\* The longest content of a quoted field that is written.
MaxField == 2

\* The characters a field is written with.
FieldChars == {"a", COMMA, QUOTE, " ", NEWLINE}

\* The contents of the quoted fields.
Contents == UNION {[1..n -> FieldChars] : n \in 0..MaxField}

RECURSIVE Doubled(_)
\* The content with every double quote doubled.
Doubled(s) ==
    IF s = <<>> THEN <<>>
    ELSE (IF Head(s) = QUOTE THEN <<QUOTE, QUOTE>> ELSE <<Head(s)>>) \o Doubled(Tail(s))

\* A field as it is written into the text.
Written(field) ==
    IF field.quoted THEN <<QUOTE>> \o Doubled(field.content) \o <<QUOTE>>
    ELSE field.content

\* The fields of the first record: a quoted one, then a plain or a quoted
\* one.
FirstFields == {[quoted |-> TRUE, content |-> c] : c \in Contents}
SecondFields ==
    {[quoted |-> FALSE, content |-> <<"b">>]}
    \cup {[quoted |-> TRUE, content |-> c] : c \in Contents}

hH == <<"h">>
hK == <<"k">>

\* The header line and the plain second record of the texts.
HeaderLine == hH \o <<COMMA>> \o hK
PlainRecord == <<"c", COMMA, "d">>

\* A source: the fields of its first record, and whether a second record
\* follows.
CsvSources ==
    {[first |-> <<f, g>>, second |-> s] : f \in FirstFields, g \in SecondFields, s \in BOOLEAN}

\* The text of a source: the header line and one line per record.
TextOf(source) ==
    HeaderLine \o <<NEWLINE>>
    \o Written(source.first[1]) \o <<COMMA>> \o Written(source.first[2])
    \o (IF source.second THEN <<NEWLINE>> \o PlainRecord ELSE <<>>)

\* The number of records of a source.
Records(source) == IF source.second THEN 2 ELSE 1

RECURSIVE SplitLines(_, _)
\* text.split('\n'), current being the line that is being read
SplitLines(text, current) ==
    IF text = <<>> THEN <<current>>
    ELSE IF Head(text) = NEWLINE
         THEN <<current>> \o SplitLines(Tail(text), <<>>)
         ELSE SplitLines(Tail(text), Append(current, Head(text)))

\* (l) => l.trim()
NotBlank(l) == Trim(l) # <<>>

RECURSIVE ParseLineFrom(_, _, _, _)
\* The loop of parseLine over the rest of the line.
ParseLineFrom(rest, current, inQuotes, result) ==
    IF rest = <<>> THEN Append(result, Trim(current))
    ELSE LET ch == Head(rest)
         IN  IF ch = QUOTE
             THEN ParseLineFrom(Tail(rest), current, ~inQuotes, result)
             ELSE IF ch = COMMA /\ ~inQuotes
             THEN ParseLineFrom(Tail(rest), <<>>, inQuotes, Append(result, Trim(current)))
             ELSE ParseLineFrom(Tail(rest), Append(current, ch), inQuotes, result)

\* parseLine(line)
ParseLine(line) == ParseLineFrom(line, <<>>, FALSE, <<>>)

\* s.replace(/^"|"$/g, '')
StripQuotes(s) ==
    LET t == IF s # <<>> /\ Head(s) = QUOTE THEN Tail(s) ELSE s
    IN  IF t # <<>> /\ t[Len(t)] = QUOTE THEN SubSeq(t, 1, Len(t) - 1) ELSE t

\* The object of one line: obj[h] = (vals[i] || '').replace(...), a header
\* that comes twice keeping the later value.
RowOf(headers, vals) ==
    [h \in Elements(headers) |->
        LET i == CHOOSE j \in DOMAIN headers :
                     /\ headers[j] = h
                     /\ \A l \in DOMAIN headers : headers[l] = h => l <= j
        IN  IF i \in DOMAIN vals THEN StripQuotes(vals[i]) ELSE <<>>]

\* parseCsvToRows(text)
ParseCsvToRows(text) ==
    LET lines == SelectSeq(SplitLines(text, <<>>), NotBlank)
    IN  IF Len(lines) < 2 THEN [headers |-> <<>>, rows |-> <<>>]
        ELSE LET first   == ParseLine(lines[1])
                 headers == [i \in DOMAIN first |-> StripQuotes(first[i])]
             IN  [headers |-> headers,
                  rows    |-> [i \in 1..(Len(lines) - 1) |->
                                   RowOf(headers, ParseLine(lines[i + 1]))]]

NoSource == [first |-> <<>>, second |-> FALSE]

NotParsed == [headers |-> <<>>, rows |-> <<>>]

\* The text of a dropped CSV file is parsed into the rows of the session.
ParseCsv ==
    /\ csvPc = "read"
    /\ csvParsed' = ParseCsvToRows(csvText)
    /\ csvPc' = "parsed"
    /\ UNCHANGED <<csvSource, csvText>>
    /\ UNCHANGED exceptCsv

\* No CSV text at hand.
InitCsv ==
    /\ csvSource = NoSource
    /\ csvText = <<>>
    /\ csvParsed = NotParsed
    /\ csvPc = "none"

\* A CSV text has been read from a file and is about to be parsed.
InitCsvRead ==
    /\ csvSource \in CsvSources
    /\ csvText = TextOf(csvSource)
    /\ csvParsed = NotParsed
    /\ csvPc = "read"

NextCsv == ParseCsv

(***************************************************************************)
(*                 loadSystemPrompt : the chat system prompt               *)
(***************************************************************************)

\* The contents public/prompt_chat.txt may have.
PromptTexts == {<<>>, <<" ">>, <<"a">>, <<"b">>, <<" ", "a">>, <<"b", " ">>, <<"a", "b">>}

\* The ways the fetch of the file may end.
FetchOutcomes == {"ok", "notok", "threw"}

\* The file is edited between two messages.
EditPromptFile ==
    /\ promptPc # "fetching"
    /\ \E text \in PromptTexts \ {promptFile} : promptFile' = text
    /\ promptPc' = "idle"
    /\ UNCHANGED <<cachedPrompt, systemInstruction, promptFetch>>
    /\ UNCHANGED exceptPrompt

\* streamChat calls loadSystemPrompt: a prompt kept from an earlier call is
\* returned at once, otherwise the file is fetched.
LoadSystemPrompt ==
    /\ promptPc # "fetching"
    /\ IF ~(cachedPrompt = Null \/ Falsy(cachedPrompt))
       THEN /\ promptPc' = "returned"
            /\ systemInstruction' = cachedPrompt
            /\ promptFetch' = "cached"
       ELSE /\ promptPc' = "fetching"
            /\ systemInstruction' = Null
            /\ promptFetch' = "none"
    /\ UNCHANGED <<promptFile, cachedPrompt>>
    /\ UNCHANGED exceptPrompt

\* The fetch ends: the trimmed text of the file is kept and returned, or the
\* empty string when the response is not ok or the fetch has thrown.
PromptFetched ==
    /\ promptPc = "fetching"
    /\ \E outcome \in FetchOutcomes :
        /\ cachedPrompt' = IF outcome = "ok" THEN Trim(promptFile) ELSE <<>>
        /\ systemInstruction' = cachedPrompt'
        /\ promptFetch' = outcome
    /\ promptPc' = "returned"
    /\ UNCHANGED promptFile
    /\ UNCHANGED exceptPrompt

InitPrompt ==
    /\ promptFile = <<" ", "a">>
    /\ cachedPrompt = Null
    /\ systemInstruction = Null
    /\ promptFetch = "none"
    /\ promptPc = "idle"

NextPrompt == EditPromptFile \/ LoadSystemPrompt \/ PromptFetched

(***************************************************************************)
(*        components/Chat.js : handleSend and the session of a chat        *)
(*                                                                         *)
(* Each press of Send that passes the guard is an invocation of handleSend *)
(* with its own sessionId and its own copy of the text. An invocation in   *)
(* a 'new' chat awaits createSession before it does anything else; what    *)
(* follows setStreaming(true) is followed step by step in the turn above   *)
(* and is one step here.                                                   *)
(***************************************************************************)

MaxSends == 3
MaxTexts == 2

Invocations == 1..MaxSends

\* The invocations between the guard and the end of handleSend.
InFlight == {i \in Invocations : sendPc[i] \in {"creating", "streaming"}}

\* The user types a message into the input.
TypeText ==
    /\ ~sendStreaming
    /\ ~input
    /\ typed < MaxTexts
    /\ input' = TRUE
    /\ typed' = typed + 1
    /\ UNCHANGED <<activeSessionId, sessions, sendPc, userMessages, sendStreaming>>
    /\ UNCHANGED exceptSends

\* From the guard to setStreaming(true), for an invocation whose session
\* is there: the user message is added, the input is emptied.
Proceed(i) ==
    /\ userMessages' = userMessages + 1
    /\ input' = FALSE
    /\ sendStreaming' = TRUE
    /\ sendPc' = [sendPc EXCEPT ![i] = "streaming"]

\* Send is pressed (the button, or Enter): handleSend passes its guard when
\* there is a text and streaming is false, and in a 'new' chat calls
\* createSession and awaits it.
PressSend ==
    /\ input /\ ~sendStreaming
    /\ \E i \in Invocations :
        /\ sendPc[i] = "none"
        /\ \A j \in 1..(i - 1) : sendPc[j] # "none"
        /\ IF activeSessionId = 0
           THEN /\ sendPc' = [sendPc EXCEPT ![i] = "creating"]
                /\ UNCHANGED <<input, userMessages, sendStreaming>>
           ELSE Proceed(i)
    /\ UNCHANGED <<activeSessionId, sessions, typed>>
    /\ UNCHANGED exceptSends

\* createSession resolves: the session becomes the active one and handleSend
\* goes on to setStreaming(true).
SessionCreated ==
    /\ \E i \in Invocations :
        /\ sendPc[i] = "creating"
        /\ sessions' = sessions + 1
        /\ activeSessionId' = sessions + 1
        /\ Proceed(i)
    /\ UNCHANGED typed
    /\ UNCHANGED exceptSends

\* createSession rejects: handleSend ends there.
CreateFails ==
    /\ \E i \in Invocations :
        /\ sendPc[i] = "creating"
        /\ sendPc' = [sendPc EXCEPT ![i] = "failed"]
    /\ UNCHANGED <<activeSessionId, sessions, input, typed, userMessages, sendStreaming>>
    /\ UNCHANGED exceptSends

\* The turn of an invocation comes to setStreaming(false).
SendEnds ==
    /\ \E i \in Invocations :
        /\ sendPc[i] = "streaming"
        /\ sendPc' = [sendPc EXCEPT ![i] = "done"]
    /\ sendStreaming' = FALSE
    /\ UNCHANGED <<activeSessionId, sessions, input, typed, userMessages>>
    /\ UNCHANGED exceptSends

\* New Chat, between turns: the next message opens a session of its own.
StartNewChat ==
    /\ activeSessionId # 0
    /\ activeSessionId' = 0
    /\ input' = FALSE
    /\ UNCHANGED <<sessions, typed, sendPc, userMessages, sendStreaming>>
    /\ UNCHANGED exceptSends

\* After the login: activeSessionId is 'new' (0 here), nothing is typed.
InitSends ==
    /\ activeSessionId = 0
    /\ sessions = 0
    /\ input = FALSE
    /\ typed = 0
    /\ sendPc = [i \in Invocations |-> "none"]
    /\ userMessages = 0
    /\ sendStreaming = FALSE

NextSends ==
    \/ TypeText
    \/ PressSend
    \/ SessionCreated
    \/ CreateFails
    \/ SendEnds
    \/ StartNewChat

Init == InitServer /\ InitChat /\ InitTools /\ InitUploads /\ InitTurn /\ InitCsv /\ InitPrompt /\ InitSends

SpecServer == Init /\ [][NextServer]_vars

SpecChat == Init /\ [][NextChat]_vars

SpecTools == Init /\ [][NextTools]_vars

SpecUploads == Init /\ [][NextUploads]_vars

SpecTurn == Init /\ [][NextTurn]_vars

SpecTurnFair == Init /\ [][NextTurn]_vars /\ FairTurn

\* The state in which a text of CsvSources is about to be parsed.
InitRead == InitServer /\ InitChat /\ InitTools /\ InitUploads /\ InitTurn /\ InitPrompt /\ InitSends /\ InitCsvRead

SpecCsv == InitRead /\ [][NextCsv]_vars

SpecSends == Init /\ [][NextSends]_vars

SpecPrompt == Init /\ [][NextPrompt]_vars

SpecSession == Init /\ [][NextSession]_vars

(***************************************************************************)
(*                  Properties of the routing of handleSend                *)
(***************************************************************************)

\* forceTools as the routing rules describe it: image generation is wanted
\* (the image-generation phrases, or an image word together with an action
\* verb), or an image is attached, or the text is a short retry right after
\* an assistant turn that indicates an image failure.
ForcedTurn(f) ==
    \/ f.wantImageGen
    \/ (f.mentionsImage /\ f.actionVerb)
    \/ f.hasImages
    \/ (f.isRetryShort /\ f.lastWasImageError)

Ended(inv) == inv.state \in {"Success", "Failure"}

IsCall(ev) == ev \in {"ok", "e429", "e402", "eother"}

\* C6 as stated: one invocation of replicateRunWithRetry calls the external
\* service at most maxRetries times in total.
C6_AtMostMaxRetriesCalls ==
    \A i \in DOMAIN invs : invs[i].calls <= maxRetries

\* C6 amended: one invocation of replicateRunWithRetry calls the external
\* service at most maxRetries + 1 = 4 times in total (the first attempt and
\* up to maxRetries retries) before it ends in Success or Failure, and the
\* number of calls answered never exceeds the number issued.
C6_AtMostMaxRetriesPlusOneCalls ==
    \A i \in DOMAIN invs :
        /\ invs[i].calls <= 4
        /\ invs[i].calls <= maxRetries + 1
        /\ Cardinality({j \in DOMAIN invs[i].trace : IsCall(invs[i].trace[j])}) <= invs[i].calls

\* An invocation that ended after maxRetries + 1 calls, all of them answered.
C6_Witness ==
    \E i \in DOMAIN invs :
        /\ Ended(invs[i])
        /\ invs[i].calls = maxRetries + 1
        /\ Cardinality({j \in DOMAIN invs[i].trace : IsCall(invs[i].trace[j])}) = 4

\* C7 as stated: the sleep before a retry is the retry-after value in
\* seconds when one is supplied, otherwise the N seconds of the "resets in
\* N seconds" hint, otherwise 15 seconds, and never more than 60 seconds.
C7_WaitIsHintSeconds ==
    \A i \in DOMAIN invs :
        invs[i].state = "Sleeping" =>
            LET e == invs[i].lastErr
                w == invs[i].waitMs
            IN  /\ w <= 60000
                /\ (e.retryAfter = "2" => w = 2000)
                /\ (e.retryAfter = "90" => w = 60000)
                /\ (e.retryAfter \in {"none", "soon"} /\ e.hint = 10 => w = 10000)
                /\ (e.retryAfter \in {"none", "soon"} /\ e.hint = 70 => w = 60000)
                /\ (e.retryAfter \in {"none", "soon"} /\ e.hint = 0 => w = 15000)

\* C7 amended: the sleep before a retry is the retry-after value in seconds
\* when the header is supplied and is a number; 15 seconds when the header
\* is supplied and is not a number (the hint is then not consulted);
\* otherwise N + 2 seconds for a "resets in N seconds" hint; otherwise 15
\* seconds; and in every case at most 60 seconds. retry-after: 2 gives
\* 2000 ms, "resets in 10 seconds" gives 12000 ms.
C7_WaitIsHintPlusMargin ==
    \A i \in DOMAIN invs :
        invs[i].state = "Sleeping" =>
            LET e == invs[i].lastErr
                w == invs[i].waitMs
            IN  /\ w <= 60000
                /\ (e.retryAfter = "2" => w = 2000)
                /\ (e.retryAfter = "90" => w = 60000)
                /\ (e.retryAfter = "soon" => w = 15000)
                /\ (e.retryAfter = "none" /\ e.hint = 10 => w = 12000)
                /\ (e.retryAfter = "none" /\ e.hint = 70 => w = 60000)
                /\ (e.retryAfter = "none" /\ e.hint = 0 => w = 15000)

\* A retry that sleeps for a hint of 70 seconds, cut down to the ceiling.
C7_Witness ==
    \E i \in DOMAIN invs :
        /\ invs[i].state = "Sleeping"
        /\ invs[i].lastErr.retryAfter = "none"
        /\ invs[i].lastErr.hint = 70
        /\ invs[i].waitMs = 60000

\* C8: a failure that is not a rate-limit signal ends the invocation at
\* once (it is the last event: no sleep and no call follows), and so does
\* a rate-limit failure on the final attempt; the error delivered to the
\* caller is the error the external call raised, unchanged. A rate-limit
\* failure on a non-final attempt is followed by a sleep and then by
\* another call, which is pending whenever the invocation is not asleep.
C8_FailurePropagation ==
    \A i \in DOMAIN invs :
        LET inv == invs[i]
            t   == inv.trace
        IN  /\ \A j \in DOMAIN t :
                /\ t[j] \in {"e402", "eother"} => j = Len(t) /\ inv.state = "Failure"
                /\ t[j] = "e429" /\ j < Len(t) => t[j + 1] = "sleep"
                /\ t[j] = "e429" /\ j = Len(t) =>
                        \/ inv.state = "Sleeping" /\ inv.attempt < maxRetries /\ sPc = "sleep"
                        \/ inv.state = "Failure" /\ inv.attempt = maxRetries
                /\ t[j] = "sleep" /\ j < Len(t) => IsCall(t[j + 1])
                /\ t[j] = "sleep" /\ j = Len(t) =>
                        inv.state = "Attempt" /\ sPc = "run" /\ i = Len(invs)
            /\ inv.state = "Failure" =>
                /\ inv.thrown = inv.lastErr
                /\ inv.thrown \in Errors
                /\ ~Is429(inv.lastErr) \/ inv.attempt = maxRetries
                /\ inv.calls = inv.attempt + 1
            /\ inv.state = "Sleeping" => Is429(inv.lastErr)

\* Both endings in one request: the first invocation failed on a
\* non-rate-limit error after one retry, the second on a rate-limit error
\* carrying a header, on its final attempt.
C8_Witness ==
    /\ Len(invs) = 2
    /\ invs[1].state = "Failure"
    /\ ~Is429(invs[1].thrown)
    /\ invs[1].attempt = 1
    /\ invs[2].state = "Failure"
    /\ Is429(invs[2].thrown)
    /\ invs[2].thrown.retryAfter = "2"
    /\ invs[2].attempt = maxRetries

GenerationErrors == {"rate_limited", "billing", "raw"}

C10_PaymentFailsAtOnce ==
    \A i \in DOMAIN invs :
        \A j \in DOMAIN invs[i].trace :
            invs[i].trace[j] = "e402" =>
                /\ j = Len(invs[i].trace)
                /\ i = Len(invs)
                /\ sPc = "done"
                /\ resp = [status |-> 500, error |-> "billing"]

\* C10 amended: a payment-required failure is never retried by
\* replicateRunWithRetry. When it fails a text-only generation (the only
\* one of a request without anchor, or the fallback), the request is failed
\* at once with the billing message and no further call. When it fails the
\* identity-preserving generation of a request with an anchor, exactly one
\* text-only fallback invocation follows.
C10_PaymentFailsTextOnlyAtOnce ==
    \A i \in DOMAIN invs :
        \A j \in DOMAIN invs[i].trace :
            invs[i].trace[j] = "e402" =>
                /\ j = Len(invs[i].trace)
                /\ invs[i].state = "Failure"
                /\ Is402(invs[i].thrown)
                /\ invs[i].model = SDXL_ID =>
                    /\ i = Len(invs)
                    /\ sPc = "done"
                    /\ resp = [status |-> 500, error |-> "billing"]
                /\ invs[i].model = INSTANTID_ID =>
                    /\ i = 1
                    /\ Len(invs) = 2
                    /\ invs[2].model = SDXL_ID

\* A request without anchor failed by a payment-required error on its
\* first call.
C10_Witness ==
    /\ ~HasAnchorBuf(req)
    /\ Len(invs) = 1
    /\ invs[1].trace = <<"e402">>
    /\ invs[1].calls = 1
    /\ resp = [status |-> 500, error |-> "billing"]

(***************************************************************************)
(*                     Properties of the tool executor                     *)
(***************************************************************************)

\* The operations that take a column argument, with the arguments that
\* name columns.
ColumnArgsOf(call) ==
    CASE call.tool \in {"compute_column_stats", "get_value_counts"} -> {call.args.column}
      [] call.tool = "get_top_tweets" -> {call.args.sort_column}
      [] call.tool = "plot_metric_vs_time" -> {call.args.metric_column, call.args.date_column}
      [] call.tool = "compute_stats_json" -> {call.args.field}
      [] OTHER -> {}

\* The name is supplied and no header of the row set equals it, as written
\* or with case, spaces, underscores and hyphens ignored.
NamesNoHeader(data, name) ==
    /\ name # Undefined
    /\ name # <<>>
    /\ \A i \in DOMAIN data.headers :
          data.headers[i] # name /\ Norm(data.headers[i]) # Norm(name)

\* The result is an error mapping that lists the headers of the row set.
IsHeaderListingError(result, data) ==
    /\ "error" \in DOMAIN result
    /\ result.error.enumerates
    /\ result.error.available = data.headers

\* C1: an operation with a column argument, run over a non-empty row set
\* with a column name that names no header even after normalisation, returns
\* an error mapping that lists the available headers, never a non-error
\* result. (The executor does not keep to this: see C1_SilentResult.)
C1_UnknownColumnIsError ==
    (/\ toolRows.rows # <<>>
     /\ \E name \in ColumnArgsOf(toolCall) : NamesNoHeader(toolRows, name))
    => IsHeaderListingError(toolResult, toolRows)

\* The case in which the executor answers an unknown column without an
\* error: get_value_counts with an empty table, get_top_tweets with rows.
C1_SilentResult ==
    /\ toolRows.rows # <<>>
    /\ \E name \in ColumnArgsOf(toolCall) : NamesNoHeader(toolRows, name)
    /\ "error" \notin DOMAIN toolResult
    /\ toolCall.tool \in {"get_value_counts", "get_top_tweets"}

\* What does hold: the three operations that read numbers or dates from the
\* named column answer an unknown column with the header-listing error.
C1_NumericOperationsReport ==
    (/\ toolRows.rows # <<>>
     /\ toolCall.tool \in {"compute_column_stats", "compute_stats_json", "plot_metric_vs_time"}
     /\ \E name \in ColumnArgsOf(toolCall) : NamesNoHeader(toolRows, name))
    => IsHeaderListingError(toolResult, toolRows)

\* A column name in another spelling is found: the result names the header.
C1_OtherSpellingResolves ==
    /\ toolRows = Tweets
    /\ toolCall.tool = "compute_column_stats"
    /\ toolCall.args.column = <<"v", "i", "e", "w", "_", "c", "o", "u", "n", "t">>
    /\ "error" \notin DOMAIN toolResult
    /\ toolResult.column = hView

(***************************************************************************)
(*                      Properties of dataset uploads                      *)
(***************************************************************************)

\* The four parts of the dataset state.
DatasetParts(data) ==
    {data.sessionCsvRows, data.sessionCsvHeaders, data.csvDataSummary, data.sessionSlimCsv}

\* C11: once the uploads have completed, rows, headers, summary and slim
\* projection all come from one upload, the one started last (among those
\* whose file set the session state); and a turn sent after the upload
\* started last has completed takes its rows and its summary from no
\* earlier upload. (The handlers do not keep to this: see C11_EarlierWins.)
C11_LastUploadWins ==
    /\ (reads = <<>> /\ Effective(uploads) # {}) =>
          \A part \in DatasetParts(sessionData) :
              part.upload = Greatest(Effective(uploads))
    /\ (sentTurn.sent /\ sentTurn.latestDone /\ sentTurn.latest # 0) =>
          /\ sentTurn.rows.upload >= sentTurn.latest
          /\ sentTurn.summary.upload >= sentTurn.latest

\* The case in which an earlier upload wins: all reads are over, every
\* started upload read its files, and the session holds the dataset of an
\* upload that was not the last to start.
C11_EarlierWins ==
    /\ reads = <<>>
    /\ Len(uploads) = 2
    /\ \A id \in DOMAIN uploads : uploads[id] = << [type |-> "csv", content |-> "rows"] >>
    /\ sessionData.sessionCsvRows.upload = 1
    /\ sessionData.csvDataSummary.upload = 1

\* What does hold: the four parts always come from the same file of the
\* same upload, the one whose text arrived last.
C11_PartsFromOneUpload ==
    \A p, q \in DatasetParts(sessionData) : p.upload = q.upload /\ p.type = q.type

(***************************************************************************)
(*                   Properties of uploads without rows                    *)
(***************************************************************************)

\* C12: an upload with no usable rows leaves the session without a dataset:
\* the session never holds an empty row set as its dataset, and no turn is
\* routed to the tools with a dataset of no rows. (A CSV file of one
\* non-blank line breaks this: see C12_EmptyDatasetSeen.)
C12_NoRowsNoDataset ==
    /\ sessionCsvRows.loaded => sessionCsvRows.n > 0
    /\ (route.decided /\ route.flags.hasData) => route.flags.safeRows > 0

\* The case in which it fails: the classifier of a turn sees a dataset
\* loaded, and the dataset has no rows.
C12_EmptyDatasetSeen ==
    /\ route.decided
    /\ route.flags.hasData
    /\ route.flags.safeRows = 0

\* What does hold: text without a non-blank line, and JSON without items,
\* change nothing; a dataset in the session has rows unless it is that of a
\* CSV upload, which may be a header alone.
C12_BlankUploadsChangeNothing ==
    [][(\/ (IngestCsv /\ ~csvContext'.set)
        \/ (IngestJson /\ ~jsonContext'.set))
       => UNCHANGED chatVars]_vars

(***************************************************************************)
(*                           Properties of Stop                            *)
(***************************************************************************)

\* C13: once Stop has been pressed during a turn, nothing more of the turn
\* is added to the assistant message, whichever strategy the turn uses: the
\* content of the message stays what it was when Stop was pressed, and that
\* content is what is persisted. (The turn does not keep to this: see
\* C13_AddedAfterStop.)
C13_StopFreezesMessage ==
    stopPressed.pressed =>
        /\ assistant.content = stopPressed.message.content
        /\ saved.done => saved.content = stopPressed.message.content

\* The cases in which output is added after Stop: the answer of the tool
\* path, and a stream whose Stop came while the user message was being
\* saved.
C13_AddedAfterStop ==
    /\ stopPressed.pressed
    /\ assistant.content # stopPressed.message.content
    /\ assistant.content # ErrText
    /\ \/ turn.strategy = "tools"
       \/ stopPressed.at = "saveUser"

\* What does hold: on the streaming strategies, a Stop pressed once the
\* stream has been asked for keeps every later chunk out of the message and
\* out of what is persisted, unless the stream fails.
C13_StopHonouredInStream ==
    (/\ stopPressed.pressed
     /\ stopPressed.at \in {"model", "saveModel", "saved"}
     /\ turn.strategy # "tools"
     /\ turn.fullContent # ErrText
     /\ ~turn.structuredParts)
    => /\ assistant.content = stopPressed.message.content
       /\ saved.done => saved.content = stopPressed.message.content

(***************************************************************************)
(*                 executeTool : what its errors enumerate                 *)
(***************************************************************************)

\* The operations on the dataset.
DatasetTools ==
    {"compute_column_stats", "get_value_counts", "get_top_tweets",
     "plot_metric_vs_time", "play_video", "compute_stats_json"}

IsError(result) == "error" \in DOMAIN result

\* C14: every error mapping executeTool returns for an operation on the
\* dataset lists the available column names of the active dataset. (The
\* row lookups of play_video do not keep to this: see C14_LookupErrorSilent.)
C14_ErrorsEnumerateColumns ==
    (/\ toolCall.tool \in DatasetTools
     /\ IsError(toolResult)
     /\ toolRows.rows # <<>>)
    => /\ toolResult.error.enumerates
       /\ toolResult.error.available = ObjectKeys(toolRows)

\* An ordinal beyond the rows, or a title no row has, is answered by an
\* error that names no column of the loaded dataset.
C14_LookupErrorSilent ==
    /\ toolCall.tool = "play_video"
    /\ toolRows.rows # <<>>
    /\ IsError(toolResult)
    /\ ~toolResult.error.enumerates
    /\ \/ toolCall.args.ordinal > Len(toolRows.rows)
       \/ ~Falsy(toolCall.args.search_by_title)

\* What does hold: the errors of the operations that are given a column
\* name, and the two errors of play_video about a missing column, list the
\* headers of the first row.
C14_ColumnErrorsEnumerate ==
    (/\ IsError(toolResult)
     /\ toolRows.rows # <<>>
     /\ \/ toolCall.tool \in DatasetTools \ {"play_video"}
        \/ toolResult.error.message \in
              {"No title column found in channel data.", "No view count column found."})
    => /\ toolResult.error.enumerates
       /\ toolResult.error.available = ObjectKeys(toolRows)

(***************************************************************************)
(*              compute_column_stats : the reported statistics             *)
(***************************************************************************)

\* Every cell of the column parses as a number.
AllNumeric(data, col) ==
    /\ data.rows # <<>>
    /\ \A i \in DOMAIN data.rows : ~IsNaNCell(Cell(data.rows[i], col))

\* k times a decimal
Times(k, a) == Normal(k * a.m, a.e)

\* C15: for a non-empty row set and a column all of whose cells parse as
\* numbers, the statistics compute_column_stats returns satisfy
\* min <= mean <= max and std >= 0, mean being the rounded value returned.
\* (Rounding takes the mean out of the range: see C15_MeanBelowMin.)
C15_MeanWithinRange ==
    (/\ toolCall.tool = "compute_column_stats"
     /\ ~IsError(toolResult)
     /\ AllNumeric(toolRows, toolResult.column))
    => /\ ~NumBelow(toolResult.mean, toolResult.min)
       /\ ~NumBelow(toolResult.max, toolResult.mean)
       /\ toolResult.variance.num >= 0

\* A column of small decimals: the mean returned is below the minimum
\* returned.
C15_MeanBelowMin ==
    /\ toolCall.tool = "compute_column_stats"
    /\ ~IsError(toolResult)
    /\ AllNumeric(toolRows, toolResult.column)
    /\ NumBelow(toolResult.mean, toolResult.min)

\* What does hold: the mean before it is rounded lies between the minimum
\* and the maximum, the variance is not negative, and the mean returned is
\* that mean rounded to 4 decimals.
C15_UnroundedMeanWithinRange ==
    (/\ toolCall.tool = "compute_column_stats"
     /\ ~IsError(toolResult)
     /\ AllNumeric(toolRows, toolResult.column))
    => LET vals == NumericValues(toolRows.rows, toolResult.column)
           n    == Len(vals)
       IN  /\ n = Len(toolRows.rows)
           /\ ~NumBelow(SumOf(vals), Times(n, toolResult.min))
           /\ ~NumBelow(Times(n, toolResult.max), SumOf(vals))
           /\ toolResult.variance.num >= 0
           /\ toolResult.mean = Fmt(SumOf(vals), n)

(***************************************************************************)
(*                     get_top_tweets : rank and order                     *)
(***************************************************************************)

\* The place of a row in the row set (the rows checked are distinct).
PlaceOf(data, row) == CHOOSE i \in DOMAIN data.rows : data.rows[i] = row

\* The header get_top_tweets reports as the view count.
ViewOf(data) == Find(ObjectKeys(data), {h \in Elements(ObjectKeys(data)) : IsViewHeader(h)})

\* C16: for a row set whose sort-column cells all parse as numbers,
\* get_top_tweets returns min(n, number of rows) entries (n defaults to 10),
\* ranked 1..k, in non-increasing order of the sort column unless ascending
\* is asked for and non-decreasing then, rows of equal value in source
\* order, no row left out that belongs before one returned; views 5, 50, 1
\* come out as 50, 5, 1.
C16_TopRowsRanked ==
    (/\ toolCall.tool = "get_top_tweets"
     /\ AllNumeric(toolRows, SortCol(toolRows, toolCall.args)))
    => LET col  == SortCol(toolRows, toolCall.args)
           rows == toolRows.rows
           k    == Min(TopN(toolCall.args), Len(rows))
           top  == TopRows(toolRows, toolCall.args)
           val(r) == ParseFloat(Cell(r, col))
           \* a belongs before b
           first(a, b) ==
               \/ IF toolCall.args.ascending
                  THEN NumBelow(val(a), val(b)) ELSE NumBelow(val(b), val(a))
               \/ val(a) = val(b) /\ PlaceOf(toolRows, a) < PlaceOf(toolRows, b)
       IN  /\ ~IsError(toolResult)
           /\ toolResult.count = k
           /\ Len(toolResult.tweets) = k
           /\ Len(top) = k
           /\ \A i \in 1..k :
                /\ toolResult.tweets[i].rank = i
                /\ toolResult.tweets[i].view = Cell(top[i], ViewOf(toolRows))
                /\ top[i] \in Elements(rows)
           /\ \A i, j \in 1..k : i < j => first(top[i], top[j])
           /\ \A r \in Elements(rows) \ Elements(top) : \A i \in 1..k : first(top[i], r)
           /\ (/\ toolRows = Videos
               /\ col = hViewCount
               /\ ~toolCall.args.ascending
               /\ toolCall.args.n = 0)
              => [i \in 1..k |-> toolResult.tweets[i].view] = <<<<"5", "0">>, <<"5">>, <<"1">>>>

\* Three rows of which two tie on the sort column are ranked in descending
\* order, the tied rows as the row set has them.
C16_Witness ==
    /\ toolCall.tool = "get_top_tweets"
    /\ toolRows = Videos
    /\ SortCol(toolRows, toolCall.args) = hScore
    /\ AllNumeric(toolRows, hScore)
    /\ ~toolCall.args.ascending
    /\ ~IsError(toolResult)
    /\ toolResult.count = 3
    /\ [i \in 1..3 |-> toolResult.tweets[i].view] = <<<<"5">>, <<"1">>, <<"5", "0">>>>

(***************************************************************************)
(*         get_value_counts and the summary : the frequency tables         *)
(***************************************************************************)

\* The frequency table as it is described: the distinct non-empty values of
\* the column, most frequent first, values of equal count in the order in
\* which the rows bring them, the first k of them.
RankedByCount(rows, col, k) ==
    LET keys    == FirstSeen(rows, col, <<>>)
        entries == [i \in DOMAIN keys |-> <<keys[i], CountOf(rows, col, keys[i])>>]
        more    == {p \in Elements(entries) \X Elements(entries) : p[1][2] > p[2][2]}
        sorted  == StableSort(entries, more)
    IN  SubSeq(sorted, 1, Min(k, Len(sorted)))

\* A value of the column is written as an integer.
HasIntegerValue(rows, col) == \E i \in DOMAIN rows : IsArrayIndex(Cell(rows[i], col))

\* C17: the frequency table of get_value_counts (top_n entries, 10 when
\* omitted) and the top 5 of every categorical column of the summary list
\* the distinct non-empty values in descending order of count, equal counts
\* in first-seen order, whatever the column holds. (Values written as
\* integers are listed in ascending numeric order instead: see
\* C17_IntegersReordered.)
C17_TablesRankedByCount ==
    /\ (toolCall.tool = "get_value_counts" /\ ~IsError(toolResult))
       => toolResult.value_counts =
            RankedByCount(toolRows.rows, toolResult.column,
                          IF toolCall.args.top_n = 0 THEN 10 ELSE toolCall.args.top_n)
    /\ \A i \in DOMAIN toolSummary.cols :
         toolSummary.cols[i].type = "categorical"
         => toolSummary.cols[i].top = RankedByCount(toolRows.rows, toolSummary.cols[i].name, 5)

\* A column with integer values: the table returned starts with a value
\* that is not the most frequent one.
C17_IntegersReordered ==
    /\ toolCall.tool = "get_value_counts"
    /\ ~IsError(toolResult)
    /\ HasIntegerValue(toolRows.rows, toolResult.column)
    /\ Len(toolResult.value_counts) > 1
    /\ toolResult.value_counts[1][2] < toolResult.value_counts[2][2]

\* What does hold: a column none of whose values is written as an integer
\* is tabled as described, by get_value_counts and by the summary.
C17_NamedValuesRanked ==
    /\ (/\ toolCall.tool = "get_value_counts"
        /\ ~IsError(toolResult)
        /\ ~HasIntegerValue(toolRows.rows, toolResult.column))
       => toolResult.value_counts =
            RankedByCount(toolRows.rows, toolResult.column,
                          IF toolCall.args.top_n = 0 THEN 10 ELSE toolCall.args.top_n)
    /\ \A i \in DOMAIN toolSummary.cols :
         (/\ toolSummary.cols[i].type = "categorical"
          /\ ~HasIntegerValue(toolRows.rows, toolSummary.cols[i].name))
         => toolSummary.cols[i].top = RankedByCount(toolRows.rows, toolSummary.cols[i].name, 5)

(***************************************************************************)
(*                      play_video : lookup by ordinal                     *)
(***************************************************************************)

\* The URL or, failing that, the identifier a row carries.
RawUrlOf(data, row) ==
    OrElse(Cell(row, UrlCol(ObjectKeys(data))), Cell(row, IdCol(ObjectKeys(data))))

\* C18: play_video called with only an ordinal k. For 1 <= k <= number of
\* rows and a k-th row that carries a URL or an identifier, the record
\* returned is built from that row: its URL (or the watch URL of its
\* identifier), its title, its thumbnail. For k beyond the rows the result
\* is an error mapping saying so; no row is read.
C18_OrdinalLookup ==
    (/\ toolCall.tool = "play_video"
     /\ toolCall.args.ordinal >= 1
     /\ toolCall.args = [NoArgs EXCEPT !.ordinal = toolCall.args.ordinal])
    => LET k    == toolCall.args.ordinal
           rows == toolRows.rows
       IN  IF k <= Len(rows)
           THEN LET raw   == RawUrlOf(toolRows, rows[k])
                    title == Cell(rows[k], TitleCol(ObjectKeys(toolRows)))
                    thumb == Cell(rows[k], ThumbCol(ObjectKeys(toolRows)))
                IN  (~Falsy(raw) /\ Trim(raw) # <<>>)
                    => /\ ~IsError(toolResult)
                       /\ toolResult.openUrl \in {Trim(raw), WatchUrl(Trim(raw))}
                       /\ toolResult.title = IF Falsy(title) THEN WATCH_VIDEO ELSE title
                       /\ toolResult.thumbnailUrl = IF Falsy(thumb) THEN Null ELSE thumb
                       /\ (toolRows = Videos /\ k = 2)
                          => /\ toolResult.openUrl = WatchUrl(<<"b", "2">>)
                             /\ toolResult.title = <<"D", "o", "g", "s">>
           ELSE /\ IsError(toolResult)
                /\ toolResult.error.message =
                      "There is no such video. Only that many video(s) in the data."

\* The second of three videos is asked for and is the one shown.
C18_Witness ==
    /\ toolCall.tool = "play_video"
    /\ toolCall.args = [NoArgs EXCEPT !.ordinal = 2]
    /\ Len(toolRows.rows) = 3
    /\ ~IsError(toolResult)
    /\ toolResult.title = Cell(toolRows.rows[2], hTitle)
    /\ toolResult.openUrl = WatchUrl(Cell(toolRows.rows[2], hVideoId))

\* An ordinal beyond the three rows is answered by an error mapping.
C18_WitnessBeyond ==
    /\ toolCall.tool = "play_video"
    /\ toolCall.args.ordinal > Len(toolRows.rows)
    /\ Len(toolRows.rows) = 3
    /\ IsError(toolResult)

(***************************************************************************)
(*                    parseCsvToRows : quoted fields                       *)
(***************************************************************************)

\* The character c occurs in the sequence s.
Holds(s, c) == \E i \in DOMAIN s : s[i] = c

\* The header under which the i-th field of a record is found.
HeaderOf(i) == <<hH, hK>>[i]

\* A quoted field of the first record holds a line break.
BreakInField(source) ==
    \E i \in DOMAIN source.first :
        source.first[i].quoted /\ Holds(source.first[i].content, NEWLINE)

\* The content without its double quotes.
RECURSIVE Unquoted(_)
Unquoted(s) ==
    IF s = <<>> THEN <<>>
    ELSE (IF Head(s) = QUOTE THEN <<>> ELSE <<Head(s)>>) \o Unquoted(Tail(s))

\* C19: a field enclosed in double quotes that contains commas is parsed as
\* one field whose value is exactly the characters between the enclosing
\* quotes, a doubled quote inside standing for one quote character. (The
\* parser drops every quote and trims the value: see C19_QuoteLost.)
C19_QuotedFieldExact ==
    (csvPc = "parsed" /\ ~BreakInField(csvSource))
    => \A i \in DOMAIN csvSource.first :
          (csvSource.first[i].quoted /\ Holds(csvSource.first[i].content, COMMA))
          => /\ csvParsed.headers = <<hH, hK>>
             /\ Len(csvParsed.rows) = Records(csvSource)
             /\ csvParsed.rows[1][HeaderOf(i)] = csvSource.first[i].content

\* A quoted field with a comma and a quote in it: the value parsed has lost
\* the quote.
C19_QuoteLost ==
    /\ csvPc = "parsed"
    /\ ~BreakInField(csvSource)
    /\ Holds(csvSource.first[1].content, COMMA)
    /\ Holds(csvSource.first[1].content, QUOTE)
    /\ Len(csvParsed.rows) = Records(csvSource)
    /\ csvParsed.rows[1][hH] = Unquoted(csvSource.first[1].content)
    /\ csvParsed.rows[1][hH] # csvSource.first[1].content

\* What does hold: a quoted field without a line break is one field, commas
\* or not, and its value is the content without its quotes and without the
\* spaces at its ends; so a content with neither is parsed exactly.
C19_QuotedFieldTrimmed ==
    (csvPc = "parsed" /\ ~BreakInField(csvSource))
    => /\ csvParsed.headers = <<hH, hK>>
       /\ Len(csvParsed.rows) = Records(csvSource)
       /\ \A i \in DOMAIN csvSource.first :
             csvSource.first[i].quoted
             => csvParsed.rows[1][HeaderOf(i)] =
                    Trim(Unquoted(csvSource.first[i].content))

\* C20: a double-quote-enclosed field that contains a newline is kept as one
\* field of one row: there are as many rows as records, and the field's
\* value is its content. (The text is cut at every line break before any
\* quote is looked at: see C20_RecordSplit.)
C20_QuotedNewlineOneRow ==
    (csvPc = "parsed" /\ BreakInField(csvSource))
    => /\ Len(csvParsed.rows) = Records(csvSource)
       /\ \A i \in DOMAIN csvSource.first :
             (csvSource.first[i].quoted /\ Holds(csvSource.first[i].content, NEWLINE))
             => csvParsed.rows[1][HeaderOf(i)] = csvSource.first[i].content

\* A record whose quoted field holds a line break has become two rows.
C20_RecordSplit ==
    /\ csvPc = "parsed"
    /\ ~csvSource.second
    /\ Holds(csvSource.first[1].content, NEWLINE)
    /\ Len(csvParsed.rows) = 2

\* What does hold: there is one row for every line after the first that is
\* not blank, whatever the quotes.
C20_RowsAreLines ==
    csvPc = "parsed"
    => LET lines == SelectSeq(SplitLines(csvText, <<>>), NotBlank)
       IN  /\ Len(lines) >= 2
           /\ Len(csvParsed.rows) = Len(lines) - 1

(***************************************************************************)
(*                enrichWithEngagement : the computed column               *)
(***************************************************************************)

\* C21: enrichWithEngagement is idempotent: applied to its own output it
\* gives the same headers and rows as applied once, and a dataset whose
\* headers already contain engagement is returned unchanged.
C21_EnrichIdempotent ==
    toolSource.kind # "none"
    => LET d    == toolSource.parsed
           once == EnrichWithEngagement(d.rows, d.headers)
       IN  /\ EnrichWithEngagement(once.rows, once.headers) = once
           /\ Includes(toolRows.headers, Engagement)
              => EnrichWithEngagement(toolRows.rows, toolRows.headers) = toolRows

\* A CSV file with favourite and view counts has been loaded: its rows have
\* got the engagement column, with a ratio or null in it.
C21_Witness ==
    /\ toolSource = [kind |-> "csv", parsed |-> Tweets]
    /\ toolRows.headers = Append(Tweets.headers, Engagement)
    /\ toolRows.rows[1][Engagement] = <<"0", ".", "1">>
    /\ toolRows.rows[3][Engagement] = Null

(***************************************************************************)
(*                     executeTool : the rows it is given                  *)
(***************************************************************************)

C22_CallKeepsRows ==
    [][(toolCall = NoCall /\ toolCall' # NoCall) => toolRows' = toolRows]_vars

HasCounts(headers) ==
    /\ \E h \in Elements(headers) : IsFavHeader(h) \/ IsLikesHeader(h)
    /\ \E h \in Elements(headers) : IsViewHeader(h) \/ IsViewsHeader(h)

\* C23: once a CSV file with at least one data row has been loaded, engagement
\* is a header of the dataset and every row has an engagement cell, so that
\* get_top_tweets with sort_column "engagement" finds the column. (A CSV
\* file without a favourite or a view column gets no engagement column: see
\* C23_NoEngagement.)
C23_EngagementAfterCsv ==
    (toolSource.kind = "csv" /\ toolSource.parsed.rows # <<>>)
    => /\ Includes(toolRows.headers, Engagement)
       /\ \A i \in DOMAIN toolRows.rows : Engagement \in DOMAIN toolRows.rows[i]
       /\ (toolCall.tool = "get_top_tweets" /\ toolCall.args.sort_column = Engagement)
          => Includes(ObjectKeys(toolRows), SortCol(toolRows, toolCall.args))

\* A CSV file of dates and view counts has been loaded and get_top_tweets is
\* asked for the rows by engagement: there is no such column, and the answer
\* is not an error but the rows in the order of the file.
C23_NoEngagement ==
    /\ toolSource = [kind |-> "csv", parsed |-> Dated]
    /\ toolRows = Dated
    /\ toolCall.tool = "get_top_tweets"
    /\ toolCall.args.sort_column = Engagement
    /\ ~Includes(ObjectKeys(toolRows), Engagement)
    /\ toolResult.kind = "top_tweets"
    /\ TopRows(toolRows, toolCall.args) = Dated.rows

\* What does hold: the rows of a CSV file in which both counts are found
\* have the engagement column.
C23_EngagementWhenCounts ==
    (toolSource.kind = "csv" /\ toolSource.parsed.rows # <<>>
        /\ HasCounts(toolSource.parsed.headers))
    => /\ Includes(toolRows.headers, Engagement)
       /\ \A i \in DOMAIN toolRows.rows : Engagement \in DOMAIN toolRows.rows[i]

(***************************************************************************)
(*               get_top_tweets : rows whose value is no number            *)
(***************************************************************************)

\* The rows i and j of a list are in the requested order by the column.
InOrder(rows, i, j, col, asc) ==
    IF asc
    THEN ~NumBelow(ParseFloat(Cell(rows[j], col)), ParseFloat(Cell(rows[i], col)))
    ELSE ~NumBelow(ParseFloat(Cell(rows[i], col)), ParseFloat(Cell(rows[j], col)))

\* Some row of the dataset has a value in the column that is no number.
HasUnparsed(data, col) == \E i \in DOMAIN data.rows : IsNaNCell(Cell(data.rows[i], col))

\* C29: in the list of get_top_tweets any two entries whose sort values both
\* parse as numbers are in the requested order, also when other rows of the
\* dataset have a sort value that does not parse. (A row without a number
\* compares as equal to every row and keeps the numbers around it apart:
\* see C29_OutOfOrder.)
C29_NumericRowsInOrder ==
    (toolCall.tool = "get_top_tweets" /\ ~IsError(toolResult))
    => LET top == TopRows(toolRows, toolCall.args)
           col == SortCol(toolRows, toolCall.args)
       IN  \A i, j \in DOMAIN top :
              (i < j /\ ~IsNaNCell(Cell(top[i], col)) /\ ~IsNaNCell(Cell(top[j], col)))
              => InOrder(top, i, j, col, toolCall.args.ascending)

\* The videos by tag, ascending: 7 is returned before 3, the row between
\* them having a word for its tag.
C29_OutOfOrder ==
    /\ toolRows = Videos
    /\ toolCall.tool = "get_top_tweets"
    /\ toolCall.args.sort_column = hTag
    /\ toolCall.args.ascending
    /\ toolCall.args.n = 0
    /\ toolResult.kind = "top_tweets"
    /\ TopRows(toolRows, toolCall.args) = Videos.rows
    /\ Videos.rows[1][hTag] = <<"7">>
    /\ Videos.rows[3][hTag] = <<"3">>
    /\ IsNaNCell(Videos.rows[2][hTag])

\* What does hold: when every row of the dataset has a number in the sort
\* column, the entries are in the requested order.
C29_AllNumericInOrder ==
    (toolCall.tool = "get_top_tweets" /\ ~IsError(toolResult)
        /\ ~HasUnparsed(toolRows, SortCol(toolRows, toolCall.args)))
    => LET top == TopRows(toolRows, toolCall.args)
           col == SortCol(toolRows, toolCall.args)
       IN  \A i, j \in DOMAIN top :
              i < j => InOrder(top, i, j, col, toolCall.args.ascending)

(***************************************************************************)
(*                  Properties of the chat system prompt                   *)
(***************************************************************************)

\* C24: after the contents of public/prompt_chat.txt have changed, the next
\* message uses the new contents as its system instruction: each call of
\* streamChat for which the file is served gets the (trimmed) contents the
\* file has at that call, also when an earlier call has loaded a prompt.
\* (A prompt that is not empty is loaded once and kept: see C24_StalePrompt.)
C24_PromptIsCurrent ==
    (promptPc = "returned" /\ promptFetch \in {"ok", "cached"})
    => systemInstruction = Trim(promptFile)

\* The file was edited after a first message, and the second message has got
\* the contents of before the edit.
C24_StalePrompt ==
    /\ promptPc = "returned"
    /\ promptFetch = "cached"
    /\ promptFile = <<"b">>
    /\ systemInstruction = <<"a">>

\* What does hold: a call that fetches the file gets its current contents,
\* and a call that does not gets the prompt kept, which is not empty.
C24_PromptAsFetched ==
    /\ (promptPc = "returned" /\ promptFetch = "ok")
       => systemInstruction = Trim(promptFile)
    /\ (promptPc = "returned" /\ promptFetch = "cached")
       => systemInstruction = cachedPrompt /\ cachedPrompt # <<>>

\* A prompt that is not empty, once kept, is kept for good.
C24_PromptKept ==
    [][(cachedPrompt # Null /\ cachedPrompt # <<>>) => cachedPrompt' = cachedPrompt]_vars

(***************************************************************************)
(*          Properties of the summary and the key columns kept             *)
(***************************************************************************)

\* C25: the summary and the key columns of the dataset are present only
\* while rows are present: once the rows have been cleared (New Chat,
\* another session selected, the attachment removed) no prompt contains the
\* summary or the key columns of the dataset loaded before. (The three
\* handlers clear the rows and the headers and leave the summary and the key
\* columns: see C25_StaleSummarySent.)
C25_SummaryOnlyWithRows ==
    /\ ~sessionCsvRows.loaded
       => csvDataSummary = "null" /\ sessionSlimCsv = "null"
    /\ (pressed.started /\ ~route.flags.hasData)
       => ~promptForGemini.summary /\ ~promptForGemini.slim

\* A dataset was loaded, its rows were cleared, and the prompt of the turn
\* sent afterwards begins with the summary of that dataset.
C25_StaleSummarySent ==
    /\ pressed.started
    /\ ~sessionCsvRows.loaded
    /\ ~route.flags.hasData
    /\ ~route.flags.capturedCsv
    /\ csvDataSummary = "summary"
    /\ promptForGemini.prefix = "Data columns"
    /\ promptForGemini.summary

\* What does hold: the summary and the key columns are written together,
\* with the rows, when a dataset is ingested, and by nothing else; and the
\* key columns are in a prompt only with the CSV file they were built from.
C25_WrittenAtIngest ==
    [][(csvDataSummary' # csvDataSummary \/ sessionSlimCsv' # sessionSlimCsv)
        => /\ sessionCsvRows'.loaded
           /\ csvDataSummary' = (IF sessionCsvRows'.n = 0 THEN "" ELSE "summary")
           /\ sessionSlimCsv' \in {"null", IF sessionCsvRows'.n = 0 THEN "" ELSE "slim"}]_vars

C25_SlimWithItsFile ==
    (pressed.started /\ promptForGemini.slim)
    => route.flags.capturedCsv /\ route.flags.hasData /\ promptForGemini.summary

(***************************************************************************)
(*                    Properties of the Send button                        *)
(***************************************************************************)

\* C28: whenever the Send button is enabled (no turn streaming, and a text,
\* an image, a CSV attachment or a JSON attachment present), pressing it
\* starts a turn; a turn whose only content is a JSON attachment is sent
\* with the default request to analyse the data. (handleSend returns at
\* once when only a JSON attachment is present: see C28_JsonOnlyIgnored.)
C28_EnabledSendStartsTurn ==
    (pressed.pressed /\ pressed.enabled)
    => /\ pressed.started
       /\ pressed.jsonOnly
          => promptForGemini.request = "Please analyze this YouTube channel JSON data."

\* A JSON file is attached, nothing else; the button is enabled, it has been
\* pressed, and no turn has started: the attachment is still there.
C28_JsonOnlyIgnored ==
    /\ pressed.pressed
    /\ pressed.enabled
    /\ pressed.jsonOnly
    /\ ~pressed.started
    /\ ~streaming
    /\ jsonContext.set
    /\ messages = <<>>

\* What does hold: a press with a text, an image or a CSV attachment, while
\* no turn is streaming, starts a turn; the only press of the enabled
\* button that is ignored is the one with a JSON attachment alone.
C28_SendStartsUnlessJsonOnly ==
    (pressed.pressed /\ pressed.enabled /\ ~pressed.jsonOnly) => pressed.started

\* The default request of a JSON attachment is sent when a CSV attachment
\* is sent along with it.
C28_JsonRequestWithCsv ==
    /\ pressed.started
    /\ route.flags.text = <<>>
    /\ route.flags.jsonPending
    /\ route.flags.capturedCsv
    /\ promptForGemini.request = "Please analyze this YouTube channel JSON data."

(***************************************************************************)
(*                 Properties of the base64 copy of the CSV                *)
(***************************************************************************)

\* C30: the base64 encoding of the attached CSV is in the prompt only on
\* turns routed to code execution: whatever the text and the attachments,
\* a prompt with the base64 payload goes with useCodeExecution. (A turn
\* forced to the tools by an image carries the payload all the same: see
\* C30_Base64ToTools.)
C30_Base64OnlyForCodeExecution ==
    (pressed.started /\ promptForGemini.base64) => route.useCodeExecution

\* A CSV file and an image are attached and the text asks for a regression:
\* the prompt carries the base64 payload and the turn goes to the tools.
C30_Base64ToTools ==
    /\ pressed.started
    /\ promptForGemini.base64
    /\ route.flags.text = <<"regression">>
    /\ route.flags.hasImages
    /\ route.flags.capturedCsv
    /\ route.useTools
    /\ ~route.useCodeExecution

\* What does hold: the payload is in the prompt exactly when a CSV file is
\* attached and the text has a word that only Python serves, and such a
\* turn goes to code execution unless it is forced to the tools.
C30_Base64UnlessForced ==
    pressed.started
    => /\ promptForGemini.base64
          = (route.flags.capturedCsv /\ route.flags.wantPythonOnly)
       /\ promptForGemini.base64 => (route.useCodeExecution = ~route.forceTools)

(***************************************************************************)
(*                 Properties of the invocations of handleSend             *)
(***************************************************************************)

\* C26: at most one turn is in flight at a time: a press of Send before an
\* earlier handleSend has finished is ignored, also while the earlier one
\* awaits the session of a 'new' chat; so a message typed once creates at
\* most one session and adds one user message. (streaming is set only after
\* createSession has resolved: see C26_TwoSessionsForOneText.)
C26_OneTurnInFlight ==
    /\ Cardinality(InFlight) <= 1
    /\ userMessages <= typed
    /\ sessions <= typed

\* One text was typed in a new chat and Send pressed twice while the session
\* was being created: two sessions exist and two user messages were added.
C26_TwoSessionsForOneText ==
    /\ typed = 1
    /\ sessions = 2
    /\ userMessages = 2
    /\ sendPc[1] = "streaming"
    /\ sendPc[2] = "streaming"

\* What does hold: while streaming is true no press is taken, and an
\* invocation whose session is there sets streaming in the step of the press.
C26_IgnoredWhileStreaming ==
    [][sendStreaming => \A i \in Invocations : sendPc[i] = "none" => sendPc'[i] = "none"]_vars

(***************************************************************************)
(*                    Properties of the end of a turn                      *)
(***************************************************************************)

\* C27: every send that sets streaming to true sets it back to false in the
\* end, whether the model answers, throws or is stopped, and whether or not
\* saving the user message or the assistant message fails. (Both calls of
\* saveMessage are awaited outside the try: see C27_StuckStreaming.)
C27_StreamingEnds == Streaming ~> ~Streaming

\* Saving a message has failed: handleSend is over and streaming is true.
C27_StuckStreaming ==
    /\ turnPc = "abandoned"
    /\ Streaming
    /\ turn.strategy # "none"

\* Once handleSend has been left by a rejected saveMessage, streaming stays
\* true.
C27_AbandonedForGood ==
    [][turnPc = "abandoned" => turnPc' = "abandoned"]_vars

\* What does hold: a turn that is not left by a rejected saveMessage comes to
\* setStreaming(false), whether the model answers, throws or is stopped.
C27_EndsUnlessSaveFails == Streaming ~> (~Streaming \/ turnPc = "abandoned")

=============================================================================
